---- MODULE Spec2Model ----
(***************************************************************************)
(* State-machine model of the SSH file-delivery helpers:                   *)
(*   helpers/upload_files_to_nird.py     dispatcher, uploader, hash check  *)
(*   helpers/ssh_transport.py            host-key check, authentication    *)
(*   helpers/upload_atlas_file_to_saga.py  single-file session             *)
(***************************************************************************)
EXTENDS Integers, Sequences, FiniteSets, TLC

\* ------------------------------------------------------------------ bounds
MaxUnits == 3
MaxWorkers == 2
MaxTextLen == 2

\* ------------------------------------------------------- program constants
SERIAL_COPYING == "serial"
PARALLEL_COPYING == "parallel"
NIRD_MODE_SSH == "ssh"
NIRD_MODE_SSH_2FA == "ssh_2fa"
NIRD_MODE_MOUNTED == "mounted"

\* ------------------------------------------------------------ text helpers
\* Texts are sequences of one-character strings.
Whitespace == {" ", "\n"}

RECURSIVE SkipWs(_)
SkipWs(s) ==
    IF s = <<>> THEN <<>>
    ELSE IF s[1] \in Whitespace THEN SkipWs(Tail(s)) ELSE s

RECURSIVE TakeToken(_)
TakeToken(s) ==
    IF s = <<>> THEN <<>>
    ELSE IF s[1] \in Whitespace THEN <<>> ELSE <<s[1]>> \o TakeToken(Tail(s))

\* str.split( )[ 0 ]: the first whitespace-delimited token; <<>> stands for the
\* IndexError of an empty split (a token is never empty).
FirstToken(s) == TakeToken(SkipWs(s))

\* the characters of a checksum text: two digit characters and a blank
TextChars == {"0", "1", " "}
Texts == UNION {[1..k -> TextChars] : k \in 0..MaxTextLen}

\* os.path.isabs on POSIX
isabs(p) == Len(p) > 0 /\ p[1] = "/"

\* ---------------------------------------------------- remote host, contents
Absent == "absent"
Contents == {"p", "q"}
\* the payload every unit holds locally; "q" is any other byte content
LocalPayload == "p"

\* /usr/bin/md5sum and /usr/bin/sha512sum of a content
Md5Of(c) == IF c = "p" THEN <<"0">> ELSE <<"1">>
Sha512Of(c) == IF c = "p" THEN <<"1">> ELSE <<"0">>

\* the remote payload path the inventory gives to unit u
PathLetters == <<"a", "b", "c", "d", "e", "f", "g", "h">>
PathOf(u) == <<"/", PathLetters[u]>>
PathA == <<"/", "a">>
PathB == <<"/", "b">>
Md5PathOf(tar) == tar \o <<"m">>
ShaPathOf(tar) == tar \o <<"s">>
RelativeMd5 == <<"a", "m">>
TarPaths == {PathA, PathB} \cup {PathOf(u) : u \in 1..MaxUnits}
RemotePaths == TarPaths \cup {Md5PathOf(t) : t \in TarPaths} \cup {ShaPathOf(t) : t \in TarPaths}

Fields == {"tar", "md5", "sha512"}

\* one value of demux.absoluteFilesToTransferList
FileEntry(tar, md5, sha, md5text, shatext) ==
    [tar_file_remote |-> tar, md5_file_remote |-> md5, sha512_file_remote |-> sha,
     md5_file_local |-> md5text, sha512_file_local |-> shatext]

RemotePathOf(entry, field) ==
    CASE field = "tar" -> entry.tar_file_remote
      [] field = "md5" -> entry.md5_file_remote
      [] OTHER -> entry.sha512_file_remote

\* checksum files as the packaging step writes them for LocalPayload
GoodMd5Text == Md5Of(LocalPayload) \o <<" ">>
GoodShaText == Sha512Of(LocalPayload) \o <<" ">>

\* -------------------------------------------------------------- exceptions
NoExc == [unit |-> 0, kind |-> "none"]
Exc(u, k) == [unit |-> u, kind |-> k]
\* what leaves _upload_files_to_nird: its kind, the unit whose upload raised it
\* (0: the dispatcher itself), and for the aggregate error the reported count
\* and first failure
NotRaised == [kind |-> "none", unit |-> 0, count |-> 0, first |-> NoExc]
Raise(k, u) == [kind |-> k, unit |-> u, count |-> 0, first |-> NoExc]
Aggregate(errs) == [kind |-> "Aggregate", unit |-> 0, count |-> Len(errs), first |-> errs[1]]

\* ------------------------------------------------------------------- state
VARIABLES
    nird_access_mode,             \* demux.nird_access_mode
    nird_copy_mode,               \* demux.nird_copy_mode
    max_workers,                  \* demux.max_workers
    tarFilesToTransferList,       \* demux.tarFilesToTransferList
    absoluteFilesToTransferList,  \* demux.absoluteFilesToTransferList
    remote,                       \* remote filesystem: path -> content or Absent
    dpc,                          \* position of _upload_files_to_nird
    idx,                          \* index of the serial loop / the submit loop
    raised,                       \* the exception leaving _upload_files_to_nird
    pc,                           \* position of each unit's upload call
    err,                          \* the exception each unit's upload call raised
    started,                      \* history: units in the order their upload began
    existedAtCall                 \* history: payload path existed when the upload began

nirdVars == <<nird_access_mode, nird_copy_mode, max_workers, tarFilesToTransferList,
              absoluteFilesToTransferList, remote, dpc, idx, raised, pc, err,
              started, existedAtCall>>

\* state of the session helpers (ssh_transport.py, upload_atlas_file_to_saga.py)
VARIABLES
    hop,                          \* the hop argument of the function under call
    known_hosts,                  \* the file at constants.USER_SSH_KNOWN_HOSTS_PATH
    transport,                    \* the paramiko.Transport of the call
    identity,                     \* the files hop[ "identityfile" ][ 0 ] and its .pub
    agent_keys,                   \* paramiko.Agent( ).get_keys( )
    server,                       \* how the server answers an authentication request
    store,                        \* how the credential store answers a lookup
    args,                         \* the arguments of _upload_csv_to_saga
    result,                       \* the value the function under call returned
    spc,                          \* position of the function under call
    serr,                         \* the exception leaving the function under call
    calls                         \* history: the calls made so far, in order

sshVars == <<hop, known_hosts, transport, identity, agent_keys, server, store, args,
             result, spc, serr, calls>>

vars == <<nirdVars, sshVars>>

\* the variables the dispatcher and the uploader leave alone
notNird == sshVars

\* no session helper is under call
SshIdle ==
    /\ hop = [kind |-> "none"]
    /\ known_hosts = [exists |-> FALSE, lines |-> <<>>]
    /\ transport = [kind |-> "none"]
    /\ identity = [kind |-> "none"]
    /\ agent_keys = <<>>
    /\ server = "none"
    /\ store = "none"
    /\ args = [kind |-> "none"]
    /\ result = [kind |-> "none"]
    /\ spc = "idle"
    /\ serr = "none"
    /\ calls = <<>>

Units == {tarFilesToTransferList[i] : i \in 1..Len(tarFilesToTransferList)}
EntryOf(u) == absoluteFilesToTransferList[u]
Exists(fs, p) == p \in DOMAIN fs /\ fs[p] # Absent
RunningPcs == {"stat", "put_tar", "put_md5", "put_sha512", "verify", "mnt_exists", "mnt_copy"}
Completed(u) == pc[u] \in {"done", "failed"}
Failed == {u \in Units : pc[u] = "failed"}

\* ------------------------------------------------------------ initial state
EmptyRemote == [p \in RemotePaths |-> Absent]
\* remote filesystems a run can meet: empty, or holding an earlier run's payload
InitialRemotes == {EmptyRemote, [EmptyRemote EXCEPT ![PathA] = "q"]}

StandardEntry(tar) == FileEntry(tar, Md5PathOf(tar), ShaPathOf(tar), GoodMd5Text, GoodShaText)
AccessModes == {NIRD_MODE_SSH, NIRD_MODE_SSH_2FA, NIRD_MODE_MOUNTED, "other"}
CopyModes == {SERIAL_COPYING, PARALLEL_COPYING, "other"}

InitRun(n, entries, remotes, accessModes, copyModes) ==
    /\ tarFilesToTransferList = [i \in 1..n |-> i]
    /\ absoluteFilesToTransferList \in [1..n -> entries]
    /\ remote \in remotes
    /\ nird_access_mode \in accessModes
    /\ nird_copy_mode \in copyModes
    /\ max_workers \in 1..MaxWorkers
    /\ dpc = "entry"
    /\ idx = 1
    /\ raised = NotRaised
    /\ pc = [u \in 1..n |-> "idle"]
    /\ err = [u \in 1..n |-> "none"]
    /\ started = <<>>
    /\ existedAtCall = [u \in 1..n |-> FALSE]
    /\ SshIdle

\* no dispatcher is running
NirdIdle ==
    /\ tarFilesToTransferList = <<>>
    /\ absoluteFilesToTransferList = <<>>
    /\ remote = EmptyRemote
    /\ nird_access_mode = NIRD_MODE_SSH
    /\ nird_copy_mode = SERIAL_COPYING
    /\ max_workers = 1
    /\ dpc = "idle"
    /\ idx = 1
    /\ raised = NotRaised
    /\ pc = <<>>
    /\ err = <<>>
    /\ started = <<>>
    /\ existedAtCall = <<>>

StandardEntries == {StandardEntry(t) : t \in TarPaths}

\* parallel runs on a fresh remote directory: up to MaxUnits units with a
\* remote path each, or two units that the inventory sends to the same path
InitPar ==
    \/ \E n \in 0..MaxUnits :
          /\ InitRun(n, StandardEntries, {EmptyRemote},
                     {NIRD_MODE_SSH, NIRD_MODE_MOUNTED, "other"}, {PARALLEL_COPYING})
          /\ \A u \in 1..n : absoluteFilesToTransferList[u] = StandardEntry(PathOf(u))
    \/ InitRun(2, {StandardEntry(PathA)}, {EmptyRemote}, {NIRD_MODE_SSH},
               {PARALLEL_COPYING})

\* one unit whose inventory entry and checksum files are arbitrary
UnitEntries ==
    {FileEntry(PathA, m, ShaPathOf(PathA), mt, st) :
        m \in {Md5PathOf(PathA), RelativeMd5}, mt \in Texts, st \in Texts}
UnitRemotes == InitialRemotes \cup {[EmptyRemote EXCEPT ![Md5PathOf(PathA)] = "q"]}
InitUnit == InitRun(1, UnitEntries, UnitRemotes, AccessModes, {SERIAL_COPYING, "other"})

\* serial runs of up to MaxUnits units
InitSer ==
    \E n \in 0..MaxUnits :
        InitRun(n, StandardEntries, InitialRemotes, AccessModes, {SERIAL_COPYING, "other"})

\* ------------------------------------------- _upload_files_to_nird, entry
\* (mutant) a copy mode that is not the parallel one is taken as the serial one
DispatchDefaultingToSerial ==
    /\ dpc = "entry"
    /\ IF Len(tarFilesToTransferList) = 0
         THEN dpc' = "raised" /\ raised' = Raise("EmptyList", 0)
       ELSE IF nird_access_mode \notin {NIRD_MODE_SSH, NIRD_MODE_SSH_2FA, NIRD_MODE_MOUNTED}
         THEN dpc' = "raised" /\ raised' = Raise("UnknownAccessMode", 0)
       ELSE IF nird_copy_mode = PARALLEL_COPYING
         THEN dpc' = "submit" /\ raised' = raised
       ELSE dpc' = "serial" /\ raised' = raised
    /\ UNCHANGED <<nird_access_mode, nird_copy_mode, max_workers, tarFilesToTransferList,
                   absoluteFilesToTransferList, remote, idx, pc, err, started,
                   existedAtCall>>
    /\ UNCHANGED notNird

Dispatch ==
    /\ dpc = "entry"
    /\ IF Len(tarFilesToTransferList) = 0
         THEN dpc' = "raised" /\ raised' = Raise("EmptyList", 0)
       ELSE IF nird_access_mode \notin {NIRD_MODE_SSH, NIRD_MODE_SSH_2FA, NIRD_MODE_MOUNTED}
         THEN dpc' = "raised" /\ raised' = Raise("UnknownAccessMode", 0)
       ELSE IF nird_copy_mode = SERIAL_COPYING
         THEN dpc' = "serial" /\ raised' = raised
       ELSE IF nird_copy_mode = PARALLEL_COPYING
         THEN dpc' = "submit" /\ raised' = raised
       ELSE dpc' = "raised" /\ raised' = Raise("UnknownCopyMode", 0)
    /\ UNCHANGED <<nird_access_mode, nird_copy_mode, max_workers, tarFilesToTransferList,
                   absoluteFilesToTransferList, remote, idx, pc, err, started,
                   existedAtCall>>
    /\ UNCHANGED notNird

\* (mutant) a serial loop that logs a failed upload and goes on with the next unit
UnitEndsAndGoesOn(u, k) ==
    /\ pc' = [pc EXCEPT ![u] = IF k = "none" THEN "done" ELSE "failed"]
    /\ err' = [err EXCEPT ![u] = k]
    /\ IF nird_copy_mode = SERIAL_COPYING
         THEN /\ idx' = idx + 1
              /\ dpc' = IF idx + 1 > Len(tarFilesToTransferList) THEN "returned" ELSE "serial"
              /\ raised' = raised
         ELSE UNCHANGED <<idx, dpc, raised>>

\* what an upload call does to the dispatcher when it ends with exception kind k
\* ("none": it returned): the serial loop goes on or lets the exception through,
\* a pool task keeps it in its future
UnitEnds(u, k) ==
    /\ pc' = [pc EXCEPT ![u] = IF k = "none" THEN "done" ELSE "failed"]
    /\ err' = [err EXCEPT ![u] = k]
    /\ IF nird_copy_mode = SERIAL_COPYING
         THEN IF k = "none"
                THEN /\ idx' = idx + 1
                     /\ dpc' = IF idx + 1 > Len(tarFilesToTransferList) THEN "returned" ELSE "serial"
                     /\ raised' = raised
                ELSE /\ idx' = idx
                     /\ dpc' = "raised"
                     /\ raised' = Raise(k, u)
         ELSE UNCHANGED <<idx, dpc, raised>>

UnitGoes(u, next) ==
    /\ pc' = [pc EXCEPT ![u] = next]
    /\ UNCHANGED <<err, idx, dpc, raised>>

\* the upload function begins for unit u: the lines before its first remote call
UploadBegins(u) ==
    /\ started' = Append(started, u)
    /\ existedAtCall' = [existedAtCall EXCEPT ![u] = Exists(remote, EntryOf(u).tar_file_remote)]
    /\ IF nird_access_mode = NIRD_MODE_MOUNTED
         THEN UnitGoes(u, "mnt_exists")
       ELSE IF \E f \in Fields : ~isabs(RemotePathOf(EntryOf(u), f))
         THEN UnitEnds(u, "NotAbsolute")
       ELSE UnitGoes(u, "stat")
    /\ UNCHANGED <<nird_access_mode, nird_copy_mode, max_workers, tarFilesToTransferList,
                   absoluteFilesToTransferList, remote>>
    /\ UNCHANGED notNird

\* serial branch: for tar_file in demux.tarFilesToTransferList: upload_func( ... )
SerialCall ==
    /\ dpc = "serial"
    /\ idx <= Len(tarFilesToTransferList)
    /\ pc[tarFilesToTransferList[idx]] = "idle"
    /\ UploadBegins(tarFilesToTransferList[idx])

\* parallel branch: pool.submit( upload_func, demux, tar_file )
Submit ==
    /\ dpc = "submit"
    /\ idx <= Len(tarFilesToTransferList)
    /\ pc' = [pc EXCEPT ![tarFilesToTransferList[idx]] = "queued"]
    /\ idx' = idx + 1
    /\ dpc' = IF idx + 1 > Len(tarFilesToTransferList) THEN "wait" ELSE "submit"
    /\ UNCHANGED <<nird_access_mode, nird_copy_mode, max_workers, tarFilesToTransferList,
                   absoluteFilesToTransferList, remote, raised, err, started,
                   existedAtCall>>
    /\ UNCHANGED notNird

\* a pool worker takes the oldest queued task; at most max_workers tasks run
StartTask(u) ==
    /\ dpc \in {"submit", "wait"}
    /\ pc[u] = "queued"
    /\ \A v \in Units : pc[v] = "queued" => u <= v
    /\ Cardinality({v \in Units : pc[v] \in RunningPcs}) < max_workers
    /\ UploadBegins(u)

\* --------------------------------------------------- _upload_tar_via_scp
\* (mutant) the put follows without looking at the result of the stat
StatIgnored(u) ==
    /\ pc[u] = "stat"
    /\ UnitGoes(u, "put_tar")
    /\ UNCHANGED <<nird_access_mode, nird_copy_mode, max_workers, tarFilesToTransferList,
                   absoluteFilesToTransferList, remote, started, existedAtCall>>
    /\ UNCHANGED notNird

\* SFTPClient.from_transport + stat of the payload path, then the finally: close.
\* Opening the session or the stat may raise something other than FileNotFoundError.
Stat(u) ==
    /\ pc[u] = "stat"
    /\ \/ UnitEnds(u, "SftpError")
       \/ IF Exists(remote, EntryOf(u).tar_file_remote)
            THEN UnitEnds(u, "TargetExists")
            ELSE UnitGoes(u, "put_tar")
    /\ UNCHANGED <<nird_access_mode, nird_copy_mode, max_workers, tarFilesToTransferList,
                   absoluteFilesToTransferList, remote, started, existedAtCall>>
    /\ UNCHANGED notNird

FieldAt(p) == CASE p = "put_tar" -> "tar" [] p = "put_md5" -> "md5" [] OTHER -> "sha512"
AfterPut(f) == CASE f = "tar" -> "put_md5" [] f = "md5" -> "put_sha512" [] OTHER -> "verify"
\* scp.SCPException with a quota/space message, any other SCPException, a dropped transport
PutErrors == {"QuotaExceeded", "SCPException", "EOFError"}

\* one scp_client.put of the try block: payload, then md5 file, then sha512 file.
\* A put that fails may leave a partial file ("q") behind.
Put(u) ==
    /\ pc[u] \in {"put_tar", "put_md5", "put_sha512"}
    /\ LET f == FieldAt(pc[u])
           path == RemotePathOf(EntryOf(u), f)
       IN \/ /\ remote' = [remote EXCEPT ![path] = LocalPayload]
             /\ UnitGoes(u, AfterPut(f))
          \/ /\ remote' \in {remote, [remote EXCEPT ![path] = "q"]}
             /\ \E k \in PutErrors : UnitEnds(u, k)
    /\ UNCHANGED <<nird_access_mode, nird_copy_mode, max_workers, tarFilesToTransferList,
                   absoluteFilesToTransferList, started, existedAtCall>>
    /\ UNCHANGED notNird

\* ------------------------------ _verify_remote_hashes_against_local_files
\* what _drain_channel leaves in results for one command: its stdout and exit
\* status, or nothing when the worker thread died before storing it
Missing == [status |-> -1, stdout |-> <<>>]
HashOutput(digest, path) == [status |-> 0, stdout |-> digest \o <<" ", " ">> \o path \o <<"\n">>]
HashFailure == [status |-> 1, stdout |-> <<>>]

\* (mutant) the sha512 comparison is left out
VerifyResultMd5Only(md5, sha512, md5_text, sha512_text) ==
    IF md5 = Missing \/ sha512 = Missing THEN "KeyError"
    ELSE IF md5.status # 0 THEN "Md5sumFailed"
    ELSE IF sha512.status # 0 THEN "Sha512sumFailed"
    ELSE IF <<>> \in {FirstToken(md5.stdout), FirstToken(sha512.stdout),
                      FirstToken(md5_text), FirstToken(sha512_text)} THEN "IndexError"
    ELSE IF FirstToken(md5_text) # FirstToken(md5.stdout) THEN "Md5Mismatch"
    ELSE "none"

\* lines 72-113 on the two drained results and the two local checksum files;
\* "none" when the function returns
VerifyResult(md5, sha512, md5_text, sha512_text) ==
    IF md5 = Missing \/ sha512 = Missing THEN "KeyError"
    ELSE IF md5.status # 0 THEN "Md5sumFailed"
    ELSE IF sha512.status # 0 THEN "Sha512sumFailed"
    ELSE LET md5_file_remote == FirstToken(md5.stdout)
             sha512_file_remote == FirstToken(sha512.stdout)
             md5_file_local == FirstToken(md5_text)
             sha512_file_local == FirstToken(sha512_text)
         IN IF <<>> \in {md5_file_remote, sha512_file_remote, md5_file_local, sha512_file_local}
              THEN "IndexError"
            ELSE IF md5_file_local # md5_file_remote THEN "Md5Mismatch"
            ELSE IF sha512_file_local # sha512_file_remote THEN "Sha512Mismatch"
            ELSE "none"

\* the whole verification of unit u: two sessions, two commands, two drain
\* threads joined, then the comparison
Verify(u) ==
    /\ pc[u] = "verify"
    /\ LET path == EntryOf(u).tar_file_remote
           md5s == {Missing, HashFailure, HashOutput(Md5Of(remote[path]), path)}
           shas == {Missing, HashFailure, HashOutput(Sha512Of(remote[path]), path)}
       IN \/ UnitEnds(u, "EOFError")
          \/ \E m \in md5s, s \in shas :
                UnitEnds(u, VerifyResult(m, s, EntryOf(u).md5_file_local, EntryOf(u).sha512_file_local))
    /\ UNCHANGED <<nird_access_mode, nird_copy_mode, max_workers, tarFilesToTransferList,
                   absoluteFilesToTransferList, remote, started, existedAtCall>>
    /\ UNCHANGED notNird

\* ------------------------- _upload_and_verify_file_via_local_sshfs_mount
\* os.path.exists on the mounted remote path
MntExists(u) ==
    /\ pc[u] = "mnt_exists"
    /\ IF Exists(remote, EntryOf(u).tar_file_remote)
         THEN UnitEnds(u, "TargetExists")
         ELSE UnitGoes(u, "mnt_copy")
    /\ UNCHANGED <<nird_access_mode, nird_copy_mode, max_workers, tarFilesToTransferList,
                   absoluteFilesToTransferList, remote, started, existedAtCall>>
    /\ UNCHANGED notNird

\* shutil.copy2 of the payload, then the open( ..., READ_ONLY_TEXT ) whose name
\* is not defined in the module: every exception of the try block is re-raised
\* as RuntimeError
MntCopy(u) ==
    /\ pc[u] = "mnt_copy"
    /\ LET path == EntryOf(u).tar_file_remote
       IN /\ remote' \in {remote, [remote EXCEPT ![path] = "q"], [remote EXCEPT ![path] = LocalPayload]}
          /\ UnitEnds(u, "SshfsUploadFailed")
    /\ UNCHANGED <<nird_access_mode, nird_copy_mode, max_workers, tarFilesToTransferList,
                   absoluteFilesToTransferList, started, existedAtCall>>
    /\ UNCHANGED notNird

\* ------------------------------- _upload_files_to_nird, after wait( ... )
\* all sequences that list every element of S once: the orders in which
\* "for future in done" can meet the failed futures (done is a set)
Orderings(S) ==
    {q \in [1..Cardinality(S) -> S] : \A i, j \in 1..Cardinality(S) : i # j => q[i] # q[j]}

\* (mutant) wait( ..., FIRST_EXCEPTION ): the collection starts at the first failure
CollectAtFirstException ==
    /\ dpc = "wait"
    /\ (\A u \in Units : Completed(u)) \/ Failed # {}
    /\ \E order \in Orderings(Failed) :
          LET errors == [i \in 1..Len(order) |-> Exc(order[i], err[order[i]])]
          IN IF errors # <<>>
               THEN dpc' = "raised" /\ raised' = Aggregate(errors)
               ELSE dpc' = "returned" /\ raised' = raised
    /\ UNCHANGED <<nird_access_mode, nird_copy_mode, max_workers, tarFilesToTransferList,
                   absoluteFilesToTransferList, remote, idx, pc, err, started, existedAtCall>>
    /\ UNCHANGED notNird

\* (mutant) wait( ..., timeout ): the collection starts while tasks still run
CollectAfterTimeout ==
    /\ dpc = "wait"
    /\ \E order \in Orderings(Failed) :
          LET errors == [i \in 1..Len(order) |-> Exc(order[i], err[order[i]])]
          IN IF errors # <<>>
               THEN dpc' = "raised" /\ raised' = Aggregate(errors)
               ELSE dpc' = "returned" /\ raised' = raised
    /\ UNCHANGED <<nird_access_mode, nird_copy_mode, max_workers, tarFilesToTransferList,
                   absoluteFilesToTransferList, remote, idx, pc, err, started, existedAtCall>>
    /\ UNCHANGED notNird

\* wait( ..., ALL_COMPLETED ) returns, the results are collected, the pool is
\* left and the aggregate error is raised if errors is not empty
CollectErrors ==
    /\ dpc = "wait"
    /\ \A u \in Units : Completed(u)
    /\ \E order \in Orderings(Failed) :
          LET errors == [i \in 1..Len(order) |-> Exc(order[i], err[order[i]])]
          IN IF errors # <<>>
               THEN dpc' = "raised" /\ raised' = Aggregate(errors)
               ELSE dpc' = "returned" /\ raised' = raised
    /\ UNCHANGED <<nird_access_mode, nird_copy_mode, max_workers, tarFilesToTransferList,
                   absoluteFilesToTransferList, remote, idx, pc, err, started, existedAtCall>>
    /\ UNCHANGED notNird

UploadStep ==
    \/ \E u \in Units : Stat(u)
    \/ \E u \in Units : Put(u)
    \/ \E u \in Units : Verify(u)
    \/ \E u \in Units : MntExists(u)
    \/ \E u \in Units : MntCopy(u)

ParNext ==
    \/ Dispatch
    \/ Submit
    \/ \E u \in Units : StartTask(u)
    \/ UploadStep
    \/ CollectErrors

SerNext ==
    \/ Dispatch
    \/ SerialCall
    \/ UploadStep

SpecPar == InitPar /\ [][ParNext]_vars
SpecSer == InitSer /\ [][SerNext]_vars
SpecUnit == InitUnit /\ [][SerNext]_vars

\* ==================================================================== hops
\* A hop is what SSHConfig.lookup returns, a mapping read with .get; the session
\* of _upload_csv_to_saga passes a str instead.
ConfigHop(hostname, port, user, identityfile) ==
    [kind |-> "config", hostname |-> hostname, port |-> port, user |-> user,
     identityfile |-> identityfile]
StrHop(s) == [kind |-> "str", str |-> s]
\* the object has a .get method
HasGet(h) == h.kind = "config"

\* ------------------------------------------------------------ known_hosts
MaxKnownHosts == 2
HostNames == {"h", "[h]:2222", "g"}
KeyTypes == {"ssh-rsa", "ssh-ed25519"}
KeyBytes == {"k1", "k2"}
\* a paramiko.PKey: get_name( ) and the key bytes; == compares both
PKey(name, bytes) == [name |-> name, bytes |-> bytes]
Keys == {PKey(t, b) : t \in KeyTypes, b \in KeyBytes}
\* one line of the known_hosts file
HostKeyEntry(hostname, key) == [hostname |-> hostname, key |-> key]
HostKeyEntries == {HostKeyEntry(h, k) : h \in HostNames, k \in Keys}
KnownHostsFiles ==
    {[exists |-> FALSE, lines |-> <<>>]} \cup
    {[exists |-> TRUE, lines |-> l] :
        l \in UNION {[1..n -> HostKeyEntries] : n \in 0..MaxKnownHosts}}

\* a live transport after the handshake
Transport(remote_key) ==
    [kind |-> "transport", active |-> TRUE, authenticated |-> FALSE, remote_key |-> remote_key]

\* HostKeys.lookup( hostname ): the entries of that host name in file order, a
\* mapping read by key type; <<>> stands for None
lookup(entries, hostname) == SelectSeq(entries, LAMBDA e : e.hostname = hostname)
\* host_key_entry[ key_type ]: the key of the first entry of that type
getitem(host_key_entry, key_type) ==
    SelectSeq(host_key_entry, LAMBDA e : e.key.name = key_type)[1].key
\* host_key_entry.items( )
items(host_key_entry) ==
    [i \in 1..Len(host_key_entry) |->
        <<host_key_entry[i].key.name, getitem(host_key_entry, host_key_entry[i].key.name)>>]

\* HostKeys.load: a line is kept unless the mapping of its host already answers
\* its key type with the same key
RECURSIVE load(_, _)
load(lines, entries) ==
    IF lines = <<>> THEN entries
    ELSE LET e == Head(lines)
             known == lookup(entries, e.hostname)
             check == /\ \E i \in 1..Len(known) : known[i].key.name = e.key.name
                      /\ getitem(known, e.key.name) = e.key
         IN load(Tail(lines), IF check THEN entries ELSE Append(entries, e))

\* _validate_hostkey: the exception it raises, "none" when it returns
validate_hostkey(h, file, remote_key) ==
    IF ~HasGet(h) THEN "AttributeError"
    ELSE LET host_keys == IF file.exists THEN load(file.lines, <<>>) ELSE <<>>
             host_key_entry == lookup(host_keys, h.hostname)
             pairs == items(host_key_entry)
             accepted == \E i \in 1..Len(pairs) :
                            pairs[i][1] = remote_key.name /\ pairs[i][2] = remote_key
         IN IF host_key_entry = <<>> THEN "HostKeyNotFound"
            ELSE IF ~accepted THEN "HostKeyMismatch"
            ELSE "none"

\* a call of the function under test ends: it returned or raised e
Ends(e) ==
    /\ spc' = IF e = "none" THEN "returned" ELSE "raised"
    /\ serr' = e

\* (mutant) every offered host key is taken as valid
ValidateHostkeyCallPassingAll ==
    /\ spc = "_validate_hostkey"
    /\ calls' = Append(calls, "_validate_hostkey")
    /\ Ends("none")
    /\ UNCHANGED <<hop, known_hosts, transport, identity, agent_keys, server, store, args, result>>
    /\ UNCHANGED nirdVars

\* one call of _validate_hostkey( hop, transport )
ValidateHostkeyCall ==
    /\ spc = "_validate_hostkey"
    /\ calls' = Append(calls, "_validate_hostkey")
    /\ Ends(validate_hostkey(hop, known_hosts, transport.remote_key))
    /\ UNCHANGED <<hop, known_hosts, transport, identity, agent_keys, server, store, args, result>>
    /\ UNCHANGED nirdVars

HopPorts == {"22", "2222"}

InitHostKey ==
    /\ NirdIdle
    /\ hop \in {ConfigHop("h", p, "u", <<>>) : p \in HopPorts}
    /\ known_hosts \in KnownHostsFiles
    /\ transport \in {Transport(k) : k \in Keys}
    /\ identity = [kind |-> "none"]
    /\ agent_keys = <<>>
    /\ server = "none"
    /\ store = "none"
    /\ args = [kind |-> "none"]
    /\ result = [kind |-> "none"]
    /\ spc = "_validate_hostkey"
    /\ serr = "none"
    /\ calls = <<>>

HostKeyNext == ValidateHostkeyCall

SpecHostKey == InitHostKey /\ [][HostKeyNext]_vars

\* ========================================================= authentication
NIRD_LOGIN == "login.nird.sigma2.no"
MaxAgentKeys == 2

\* the identity file on disk and its .pub: what os.stat finds at the path, how
\* the private key in it loads, and the fingerprint the .pub file gives
IdentityFileKinds == {"regular", "missing", "symlink", "directory", "empty", "unreadable"}
Identity(file, key, pub) == [kind |-> "identity", file |-> file, key |-> key, pub |-> pub]
Identities ==
    {Identity(f, "plain", "A") : f \in IdentityFileKinds \ {"regular"}} \cup
    {Identity("regular", k, p) : k \in {"plain", "encrypted", "garbage"},
                                 p \in {"A", "malformed", "missing"}}

\* fingerprints of the keys an agent holds, in the order get_keys( ) lists them
AgentFingerprints == {"A", "B"}
AgentKeyLists ==
    {l \in UNION {[1..n -> AgentFingerprints] : n \in 0..MaxAgentKeys} :
        \A i, j \in 1..Len(l) : l[i] = l[j] => i = j}

\* answers of the server to one authentication request: success, rejection,
\* further authentication required, a socket error, the peer closing
Servers == {"accept", "reject", "partial", "oserror", "closed"}
\* the credential store holds the entry, holds nothing, or cannot be reached
Stores == {"ok", "empty", "down"}

AuthRequests == {"auth_publickey", "auth_interactive", "auth_password"}
Strategies == {"publickey", "keyboard-interactive", "password"}

\* (mutant) 2FA is enabled for the flagged host only
strategy_password_by_default(h) ==
    IF h.identityfile # <<>> THEN "publickey"
    ELSE IF h.hostname = NIRD_LOGIN THEN "keyboard-interactive"
    ELSE "password"

\* (mutant) the hop flagged as always-2FA is asked first
strategy_totp_first(h) ==
    IF h.hostname = NIRD_LOGIN \/ h.identityfile = <<>> THEN "keyboard-interactive"
    ELSE "publickey"

\* _authenticate_transport, lines 432-443: the branch taken
strategy(h) ==
    LET identityfile == h.identityfile
        totp_enabled == IF h.hostname = NIRD_LOGIN THEN TRUE ELSE identityfile = <<>>
    IN IF identityfile # <<>> THEN "publickey"
       ELSE IF totp_enabled THEN "keyboard-interactive"
       ELSE "password"

\* _validate_ssh_key_auth_inputs: the exception it raises
validate_ssh_key_auth_inputs(h, id) ==
    IF h.user = "" THEN "ValueError"
    ELSE IF id.file = "symlink" THEN "ValueError"
    ELSE IF id.file = "missing" THEN "FileNotFoundError"
    ELSE IF id.file \in {"directory", "empty", "unreadable"} THEN "ValueError"
    ELSE "none"

\* _load_private_key: the exception it raises; an encrypted key needs the
\* passphrase the store holds
load_private_key(id, st) ==
    IF id.key = "plain" \/ (id.key = "encrypted" /\ st = "ok") THEN "none"
    ELSE "RuntimeError"

\* the function under call goes on to its next step
Goes(next) ==
    /\ spc' = next
    /\ serr' = serr

\* the outcome of one authentication request on the transport
Answered(answer) ==
    /\ transport' = [transport EXCEPT !.authenticated = (answer = "accept"),
                                      !.active = (answer # "closed")]
    /\ CASE answer = "accept" -> Goes("is_authenticated")
         [] answer \in {"reject", "partial"} -> Ends("AuthenticationException")
         [] OTHER -> Ends("OSError")

\* _authenticate_transport, lines 430-447: the strategy is selected; the
\* password branch is carried out here
AuthenticateTransport ==
    /\ spc = "_authenticate_transport"
    /\ IF ~HasGet(hop)
         THEN /\ Ends("AttributeError")
              /\ calls' = Append(calls, "_authenticate_transport")
              /\ UNCHANGED transport
       ELSE IF strategy(hop) = "publickey"
         THEN /\ Goes("_validate_ssh_key_auth_inputs")
              /\ calls' = calls \o <<"_authenticate_transport", "publickey">>
              /\ UNCHANGED transport
       ELSE IF strategy(hop) = "keyboard-interactive"
         THEN /\ Goes("_get_login_credentials")
              /\ calls' = calls \o <<"_authenticate_transport", "keyboard-interactive">>
              /\ UNCHANGED transport
       ELSE IF store = "down"
         THEN /\ Ends("CredentialStoreError")
              /\ calls' = calls \o <<"_authenticate_transport", "password", "_get_password">>
              /\ UNCHANGED transport
       ELSE IF store = "empty"
         THEN /\ Ends("ValueError")
              /\ calls' = calls \o <<"_authenticate_transport", "password", "_get_password">>
              /\ UNCHANGED transport
       ELSE /\ Answered(server)
            /\ calls' = calls \o <<"_authenticate_transport", "password", "_get_password",
                                   "auth_password">>
    /\ UNCHANGED <<hop, known_hosts, identity, agent_keys, server, store, args, result>>
    /\ UNCHANGED nirdVars

\* _auth_transport_ssh_keys, line 359
ValidateSshKeyAuthInputs ==
    /\ spc = "_validate_ssh_key_auth_inputs"
    /\ calls' = Append(calls, "_validate_ssh_key_auth_inputs")
    /\ LET e == validate_ssh_key_auth_inputs(hop, identity)
       IN IF e = "none" THEN Goes("_get_password") ELSE Ends(e)
    /\ UNCHANGED <<hop, known_hosts, transport, identity, agent_keys, server, store, args, result>>
    /\ UNCHANGED nirdVars

\* _auth_transport_ssh_keys, line 360: the passphrase is fetched from the store
GetPassphrase ==
    /\ spc = "_get_password"
    /\ calls' = Append(calls, "_get_password")
    /\ IF store = "down" THEN Ends("CredentialStoreError") ELSE Goes("_load_private_key")
    /\ UNCHANGED <<hop, known_hosts, transport, identity, agent_keys, server, store, args, result>>
    /\ UNCHANGED nirdVars

\* _auth_transport_ssh_keys, line 361: the private key is read from disk
LoadPrivateKey ==
    /\ spc = "_load_private_key"
    /\ calls' = Append(calls, "_load_private_key")
    /\ LET e == load_private_key(identity, store)
       IN IF e = "none" THEN Goes("_auth_via_agent") ELSE Ends(e)
    /\ UNCHANGED <<hop, known_hosts, transport, identity, agent_keys, server, store, args, result>>
    /\ UNCHANGED nirdVars

\* (mutant) every key of the agent is offered in turn until the server accepts one
AuthViaAgentOfferingEveryKey ==
    /\ spc = "_auth_via_agent"
    /\ IF identity.pub \in {"missing", "malformed"}
         THEN /\ Ends(IF identity.pub = "missing" THEN "FileNotFoundError" ELSE "ValueError")
              /\ calls' = Append(calls, "_auth_via_agent")
              /\ UNCHANGED transport
       ELSE IF agent_keys = <<>>
         THEN /\ Goes("_auth_via_private_key")
              /\ calls' = Append(calls, "_auth_via_agent")
              /\ UNCHANGED transport
       ELSE /\ Answered(server)
            /\ calls' = calls \o <<"_auth_via_agent">> \o
                          [i \in 1..(IF server = "accept" THEN 1 ELSE Len(agent_keys)) |->
                              "auth_publickey"]
    /\ UNCHANGED <<hop, known_hosts, identity, agent_keys, server, store, args, result>>
    /\ UNCHANGED nirdVars

\* _auth_transport_ssh_keys, lines 365-367, with _auth_via_agent: the first agent
\* key with the fingerprint of the .pub file is offered, and no other
AuthViaAgent ==
    /\ spc = "_auth_via_agent"
    /\ IF identity.pub \in {"missing", "malformed"}
         THEN /\ Ends(IF identity.pub = "missing" THEN "FileNotFoundError" ELSE "ValueError")
              /\ calls' = Append(calls, "_auth_via_agent")
              /\ UNCHANGED transport
       ELSE IF \A i \in 1..Len(agent_keys) : agent_keys[i] # identity.pub
         THEN /\ Goes("_auth_via_private_key")
              /\ calls' = Append(calls, "_auth_via_agent")
              /\ UNCHANGED transport
       ELSE /\ Answered(server)
            /\ calls' = calls \o <<"_auth_via_agent", "auth_publickey">>
    /\ UNCHANGED <<hop, known_hosts, identity, agent_keys, server, store, args, result>>
    /\ UNCHANGED nirdVars

\* _auth_transport_ssh_keys, line 369: the name _auth_via_private_key is bound
\* nowhere, the call raises NameError
AuthViaPrivateKey ==
    /\ spc = "_auth_via_private_key"
    /\ calls' = Append(calls, "_auth_via_private_key")
    /\ Ends("NameError")
    /\ UNCHANGED <<hop, known_hosts, transport, identity, agent_keys, server, store, args, result>>
    /\ UNCHANGED nirdVars

\* _auth_transport_2fa, line 391
GetLoginCredentials ==
    /\ spc = "_get_login_credentials"
    /\ calls' = Append(calls, "_get_login_credentials")
    /\ IF store = "down" THEN Ends("CredentialStoreError") ELSE Goes("auth_interactive")
    /\ UNCHANGED <<hop, known_hosts, transport, identity, agent_keys, server, store, args, result>>
    /\ UNCHANGED nirdVars

\* _auth_transport_2fa, lines 405-412; a server is not satisfied by the
\* credentials of an empty store
AuthInteractive ==
    /\ spc = "auth_interactive"
    /\ calls' = Append(calls, "auth_interactive")
    /\ Answered(IF store = "empty" /\ server = "accept" THEN "reject" ELSE server)
    /\ UNCHANGED <<hop, known_hosts, identity, agent_keys, server, store, args, result>>
    /\ UNCHANGED nirdVars

\* (mutant) the call returns whatever the state of the transport
IsAuthenticatedUnchecked ==
    /\ spc = "is_authenticated"
    /\ \E active \in BOOLEAN :
          /\ transport' = [transport EXCEPT !.active = active]
          /\ Ends("none")
    /\ UNCHANGED calls
    /\ UNCHANGED <<hop, known_hosts, identity, agent_keys, server, store, args, result>>
    /\ UNCHANGED nirdVars

\* _authenticate_transport, lines 449-450; the connection may have dropped since
\* the strategy returned
IsAuthenticated ==
    /\ spc = "is_authenticated"
    /\ \E active \in BOOLEAN :
          /\ transport' = [transport EXCEPT !.active = active]
          /\ Ends(IF active /\ transport.authenticated THEN "none"
                  ELSE "AuthenticationException")
    /\ UNCHANGED calls
    /\ UNCHANGED <<hop, known_hosts, identity, agent_keys, server, store, args, result>>
    /\ UNCHANGED nirdVars

AuthHops ==
    {ConfigHop(h, "22", u, i) : h \in {NIRD_LOGIN, "h"}, u \in {"u", ""},
                                i \in {<<>>, <<"id">>}}

InitAuth ==
    /\ NirdIdle
    /\ hop \in AuthHops
    /\ known_hosts = [exists |-> FALSE, lines |-> <<>>]
    /\ transport = Transport(PKey("ssh-rsa", "k1"))
    /\ identity \in IF hop.identityfile = <<>> THEN {[kind |-> "none"]} ELSE Identities
    /\ agent_keys \in AgentKeyLists
    /\ server \in Servers
    /\ store \in Stores
    /\ args = [kind |-> "none"]
    /\ result = [kind |-> "none"]
    /\ spc = "_authenticate_transport"
    /\ serr = "none"
    /\ calls = <<>>

AuthNext ==
    \/ AuthenticateTransport
    \/ ValidateSshKeyAuthInputs
    \/ GetPassphrase
    \/ LoadPrivateKey
    \/ AuthViaAgent
    \/ AuthViaPrivateKey
    \/ GetLoginCredentials
    \/ AuthInteractive
    \/ IsAuthenticated

SpecAuth == InitAuth /\ [][AuthNext]_vars

\* ================================================ ssh client configuration
MaxJumps == 2
MaxIdentityFiles == 2
\* the Host blocks of the configuration file
Aliases == {"t", "j1", "j2"}
\* a ProxyJump token of the [user@]host[:port] form
InlineJump == "u@j1"

\* the options of one Host block; "" and <<>> stand for an option not given
HostOptions(hostname, user, proxyjump, strict, dns, identityfile, identitiesonly) ==
    [kind |-> "config", hostname |-> hostname, port |-> "22", user |-> user,
     proxyjump |-> proxyjump, stricthostkeychecking |-> strict,
     verifyhostkeydns |-> dns, identityfile |-> identityfile,
     identitiesonly |-> identitiesonly]

\* an option the block of the alias does not give comes from the "Host *" block
Inherit(own, star) ==
    [kind |-> "config",
     hostname |-> own.hostname,
     port |-> own.port,
     user |-> IF own.user = "" THEN star.user ELSE own.user,
     proxyjump |-> IF own.proxyjump = <<>> THEN star.proxyjump ELSE own.proxyjump,
     stricthostkeychecking |-> IF own.stricthostkeychecking = ""
                                 THEN star.stricthostkeychecking
                                 ELSE own.stricthostkeychecking,
     verifyhostkeydns |-> IF own.verifyhostkeydns = "" THEN star.verifyhostkeydns
                          ELSE own.verifyhostkeydns,
     identityfile |-> own.identityfile \o star.identityfile,
     identitiesonly |-> IF own.identitiesonly = "" THEN star.identitiesonly
                        ELSE own.identitiesonly]

\* ssh_config.lookup( alias ): the options of every block that matches the
\* alias, the first value given winning (IdentityFile values accumulate), and
\* hostname being the alias itself unless HostName is given
config_lookup(cfg, alias) ==
    LET none == HostOptions("", "", <<>>, "", "", <<>>, "")
        star == IF "*" \in DOMAIN cfg THEN cfg["*"] ELSE none
        own == IF alias \in DOMAIN cfg \ {"*"} THEN cfg[alias] ELSE none
    IN [Inherit(own, star) EXCEPT !.hostname = IF @ = "" THEN alias ELSE @]

\* INLINE_JUMP_RE matches and the token holds "@", ":" or starts with "ssh://"
is_inline_jump(hop_alias) == hop_alias = InlineJump

LoopError == "RuntimeError: ProxyJump loop detected"
InlineError == "ValueError: ProxyJump must be aliases only"

\* (mutant) an alias met again is taken as a hop of its own, not expanded
RECURSIVE resolve_loop_skipping_seen(_, _, _, _)
resolve_loop_skipping_seen(cfg, resolved_hops, seen_aliases, pending_aliases) ==
    IF pending_aliases = <<>> THEN [err |-> "none", hops |-> resolved_hops]
    ELSE LET current_alias == Head(pending_aliases)
             current_lookup == config_lookup(cfg, current_alias)
             hop_aliases == current_lookup.proxyjump
         IN IF current_alias \in seen_aliases
              THEN resolve_loop_skipping_seen(cfg, Append(resolved_hops, current_lookup),
                                              seen_aliases, Tail(pending_aliases))
            ELSE IF \E i \in 1..Len(hop_aliases) : is_inline_jump(hop_aliases[i])
              THEN [err |-> InlineError, hops |-> <<>>]
            ELSE IF hop_aliases # <<>>
              THEN resolve_loop_skipping_seen(cfg, resolved_hops,
                                              seen_aliases \cup {current_alias},
                                              hop_aliases \o Tail(pending_aliases))
            ELSE resolve_loop_skipping_seen(cfg, Append(resolved_hops, current_lookup),
                                            seen_aliases \cup {current_alias},
                                            Tail(pending_aliases))

\* _resolve_proxyjump_chain, the while loop of lines 104-123
RECURSIVE resolve_loop(_, _, _, _)
resolve_loop(cfg, resolved_hops, seen_aliases, pending_aliases) ==
    IF pending_aliases = <<>> THEN [err |-> "none", hops |-> resolved_hops]
    ELSE LET current_alias == Head(pending_aliases)
             current_lookup == config_lookup(cfg, current_alias)
             hop_aliases == current_lookup.proxyjump
         IN IF current_alias \in seen_aliases
              THEN [err |-> LoopError, hops |-> <<>>]
            ELSE IF \E i \in 1..Len(hop_aliases) : is_inline_jump(hop_aliases[i])
              THEN [err |-> InlineError, hops |-> <<>>]
            ELSE IF hop_aliases # <<>>
              THEN resolve_loop(cfg, resolved_hops, seen_aliases \cup {current_alias},
                                hop_aliases \o Tail(pending_aliases))
            ELSE resolve_loop(cfg, Append(resolved_hops, current_lookup),
                              seen_aliases \cup {current_alias}, Tail(pending_aliases))

\* (mutant) the lookup of the start alias is appended in every case
resolve_proxyjump_chain_appending(cfg, start_alias) ==
    LET r == resolve_loop(cfg, <<>>, {}, <<start_alias>>)
    IN IF r.err # "none" THEN r
       ELSE [err |-> "none", hops |-> Append(r.hops, config_lookup(cfg, start_alias))]

\* _resolve_proxyjump_chain: the exception raised and the chain returned
resolve_proxyjump_chain(cfg, start_alias) ==
    LET r == resolve_loop(cfg, <<>>, {}, <<start_alias>>)
        final_lookup == config_lookup(cfg, start_alias)
    IN IF r.err # "none" THEN r
       ELSE IF r.hops[Len(r.hops)] # final_lookup
         THEN [err |-> "none", hops |-> Append(r.hops, final_lookup)]
       ELSE r

NoResult == [kind |-> "none"]
Chain(hops) == [kind |-> "chain", hops |-> hops]

\* one call of _resolve_proxyjump_chain( ssh_config, start_alias )
ResolveProxyjumpChainCall ==
    /\ spc = "_resolve_proxyjump_chain"
    /\ args.kind = "resolve"
    /\ calls' = Append(calls, "_resolve_proxyjump_chain")
    /\ LET r == resolve_proxyjump_chain(args.ssh_config, args.start_alias)
       IN /\ Ends(r.err)
          /\ result' = IF r.err = "none" THEN Chain(r.hops) ELSE NoResult
    /\ UNCHANGED <<hop, known_hosts, transport, identity, agent_keys, server, store, args>>
    /\ UNCHANGED nirdVars

\* a block that meets the policy
GoodOptions(hostname, proxyjump) == HostOptions(hostname, "u", proxyjump, "yes", "yes", <<"id">>, "yes")
ProxyJumpsOver(tokens) == UNION {[1..n -> tokens] : n \in 0..MaxJumps}
\* configurations of three blocks: the target may carry an inline token, and
\* j2 may be a second name of the host of j1
ResolveConfigs ==
    {[a \in Aliases |-> CASE a = "t" -> GoodOptions("", pt)
                          [] a = "j1" -> GoodOptions("", p1)
                          [] OTHER -> GoodOptions(h2, p2)] :
        pt \in ProxyJumpsOver(Aliases \cup {InlineJump}),
        p1 \in ProxyJumpsOver(Aliases), p2 \in ProxyJumpsOver(Aliases),
        h2 \in {"", "j1"}}

\* the session state of a call that touches no transport
NoSession ==
    /\ hop = [kind |-> "none"]
    /\ known_hosts = [exists |-> FALSE, lines |-> <<>>]
    /\ transport = [kind |-> "none"]
    /\ identity = [kind |-> "none"]
    /\ agent_keys = <<>>
    /\ server = "none"
    /\ store = "none"
    /\ result = NoResult
    /\ serr = "none"
    /\ calls = <<>>

InitResolve ==
    /\ NirdIdle
    /\ NoSession
    /\ args \in {[kind |-> "resolve", ssh_config |-> c, start_alias |-> "t"] :
                    c \in ResolveConfigs}
    /\ spc = "_resolve_proxyjump_chain"

ResolveNext == ResolveProxyjumpChainCall

SpecResolve == InitResolve /\ [][ResolveNext]_vars

\* =================== _resolve_proxyjump_chain, one pass of the loop at a time
\* the locals of the call, the aliases given to ssh_config.lookup inside the
\* loop so far, and the passes of the loop begun so far
Looping(resolved_hops, seen_aliases, pending_aliases, lookups, iterations) ==
    [kind |-> "loop", resolved_hops |-> resolved_hops, seen_aliases |-> seen_aliases,
     pending_aliases |-> pending_aliases, lookups |-> lookups, iterations |-> iterations]

\* (mutant) the alias taken from the worklist is not compared with the seen ones
ResolveIterationNotComparing ==
    /\ spc = "while"
    /\ result.pending_aliases # <<>>
    /\ calls' = Append(calls, "while")
    /\ LET current_alias == Head(result.pending_aliases)
           current_lookup == config_lookup(args.ssh_config, current_alias)
           hop_aliases == current_lookup.proxyjump
           looked == [result EXCEPT !.iterations = @ + 1,
                                    !.pending_aliases = Tail(@),
                                    !.seen_aliases = @ \cup {current_alias},
                                    !.lookups = Append(@, current_alias)]
       IN IF \E i \in 1..Len(hop_aliases) : is_inline_jump(hop_aliases[i])
            THEN Ends(InlineError) /\ result' = looked
          ELSE IF hop_aliases # <<>>
            THEN /\ Goes("while")
                 /\ result' = [looked EXCEPT !.pending_aliases = hop_aliases \o @]
          ELSE /\ Goes("while")
               /\ result' = [looked EXCEPT !.resolved_hops = Append(@, current_lookup)]
    /\ UNCHANGED <<hop, known_hosts, transport, identity, agent_keys, server, store, args>>
    /\ UNCHANGED nirdVars

\* lines 104-123, one pass of `while pending_aliases`
ResolveIteration ==
    /\ spc = "while"
    /\ result.pending_aliases # <<>>
    /\ calls' = Append(calls, "while")
    /\ LET current_alias == Head(result.pending_aliases)
           current_lookup == config_lookup(args.ssh_config, current_alias)
           hop_aliases == current_lookup.proxyjump
           popped == [result EXCEPT !.iterations = @ + 1, !.pending_aliases = Tail(@)]
           looked == [popped EXCEPT !.seen_aliases = @ \cup {current_alias},
                                    !.lookups = Append(@, current_alias)]
       IN IF current_alias \in result.seen_aliases
            THEN Ends(LoopError) /\ result' = popped
          ELSE IF \E i \in 1..Len(hop_aliases) : is_inline_jump(hop_aliases[i])
            THEN Ends(InlineError) /\ result' = looked
          ELSE IF hop_aliases # <<>>
            THEN /\ Goes("while")
                 /\ result' = [looked EXCEPT !.pending_aliases = hop_aliases \o @]
          ELSE /\ Goes("while")
               /\ result' = [looked EXCEPT !.resolved_hops = Append(@, current_lookup)]
    /\ UNCHANGED <<hop, known_hosts, transport, identity, agent_keys, server, store, args>>
    /\ UNCHANGED nirdVars

\* lines 125-134: the worklist is empty; the lookup of the start alias closes
\* the chain unless it is its last hop already
ResolveFinish ==
    /\ spc = "while"
    /\ result.pending_aliases = <<>>
    /\ calls' = Append(calls, "return")
    /\ LET final_lookup == config_lookup(args.ssh_config, args.start_alias)
           hops == result.resolved_hops
       IN result' = [result EXCEPT !.resolved_hops =
                         IF hops[Len(hops)] # final_lookup THEN Append(hops, final_lookup)
                         ELSE hops]
    /\ Ends("none")
    /\ UNCHANGED <<hop, known_hosts, transport, identity, agent_keys, server, store, args>>
    /\ UNCHANGED nirdVars

\* line 102: resolved_hops, seen_aliases, pending_aliases = [ ], set( ), [ start_alias ]
InitLoop ==
    /\ NirdIdle
    /\ hop = [kind |-> "none"]
    /\ known_hosts = [exists |-> FALSE, lines |-> <<>>]
    /\ transport = [kind |-> "none"]
    /\ identity = [kind |-> "none"]
    /\ agent_keys = <<>>
    /\ server = "none"
    /\ store = "none"
    /\ args \in {[kind |-> "loop", ssh_config |-> c, start_alias |-> a] :
                    c \in ResolveConfigs, a \in {"t", "j1"}}
    /\ result = Looping(<<>>, {}, <<args.start_alias>>, <<>>, 0)
    /\ spc = "while"
    /\ serr = "none"
    /\ calls = <<>>

LoopNext ==
    \/ ResolveIteration
    \/ ResolveFinish

\* the call runs in a thread that is scheduled as long as it has a step to take
SpecLoop == InitLoop /\ [][LoopNext]_vars /\ WF_vars(LoopNext)

\* ============================ _resolve_proxyjump_chain, the ProxyJump tokens
MaxJumpLen == 4

\* the characters of a ProxyJump value: a name character, a digit, and the
\* characters the expression treats apart
JumpChars == {"j", "2", "@", ":", "/", ",", " "}
SshScheme == <<"s", "s", "h", ":", "/", "/">>
JumpValues ==
    UNION {[1..n -> JumpChars] : n \in 0..MaxJumpLen} \cup
    {SshScheme \o v : v \in UNION {[1..n -> JumpChars] : n \in 0..(MaxJumpLen - 2)}}

StartsWith(s, prefix) == Len(s) >= Len(prefix) /\ SubSeq(s, 1, Len(prefix)) = prefix

\* str.split( " " ): the pieces between single blanks, empty pieces included
RECURSIVE split_blank(_, _, _)
split_blank(s, piece, pieces) ==
    IF s = <<>> THEN Append(pieces, piece)
    ELSE IF Head(s) = " " THEN split_blank(Tail(s), <<>>, Append(pieces, piece))
    ELSE split_blank(Tail(s), Append(piece, Head(s)), pieces)

\* line 113: [ hop.strip( ) for hop in proxyjump_value.split( " " ) if hop.strip( ) ]
hop_aliases_of(proxyjump_value) ==
    SelectSeq(split_blank(proxyjump_value, <<>>, <<>>), LAMBDA piece : piece # <<>>)

\* the groups of INLINE_JUMP_RE, line 117:
\* ^(?:ssh://)?(?:[^@/]+@)?[^:/\s,]+(?::\d+)?(?:/.*)?$
ReScheme(s) == s = <<>> \/ s = SshScheme
ReUser(s) ==
    \/ s = <<>>
    \/ /\ Len(s) >= 2
       /\ s[Len(s)] = "@"
       /\ \A i \in 1..(Len(s) - 1) : s[i] \notin {"@", "/"}
ReHost(s) == s # <<>> /\ \A i \in 1..Len(s) : s[i] \notin {":", "/", " ", ","}
RePort(s) ==
    \/ s = <<>>
    \/ /\ Len(s) >= 2
       /\ s[1] = ":"
       /\ \A i \in 2..Len(s) : s[i] = "2"
RePath(s) == s = <<>> \/ s[1] = "/"

\* INLINE_JUMP_RE.match( hop_alias )
inline_jump_re_match(t) ==
    \E a, b, c, d \in 0..Len(t) :
        /\ a <= b /\ b <= c /\ c <= d
        /\ ReScheme(SubSeq(t, 1, a))
        /\ ReUser(SubSeq(t, a + 1, b))
        /\ ReHost(SubSeq(t, b + 1, c))
        /\ RePort(SubSeq(t, c + 1, d))
        /\ RePath(SubSeq(t, d + 1, Len(t)))

\* line 118, the test applied to each token
inline_token(hop_alias) ==
    /\ inline_jump_re_match(hop_alias)
    /\ \/ \E i \in 1..Len(hop_alias) : hop_alias[i] = "@"
       \/ \E i \in 1..Len(hop_alias) : hop_alias[i] = ":"
       \/ StartsWith(hop_alias, SshScheme)

Pending(aliases) == [kind |-> "pending", aliases |-> aliases]

\* lines 112-121 of one iteration: the ProxyJump value of the current lookup is
\* split, the tokens are tested, and what passes is put on the worklist
ProxyJumpTokens ==
    /\ spc = "proxyjump_value"
    /\ calls' = Append(calls, "proxyjump_value")
    /\ LET hop_aliases == hop_aliases_of(args.proxyjump)
       IN IF \E i \in 1..Len(hop_aliases) : inline_token(hop_aliases[i])
            THEN Ends(InlineError) /\ result' = NoResult
            ELSE Ends("none") /\ result' = Pending(hop_aliases)
    /\ UNCHANGED <<hop, known_hosts, transport, identity, agent_keys, server, store, args>>
    /\ UNCHANGED nirdVars

InitJump ==
    /\ NirdIdle
    /\ hop = [kind |-> "none"]
    /\ known_hosts = [exists |-> FALSE, lines |-> <<>>]
    /\ args \in {[kind |-> "jump", proxyjump |-> v] : v \in JumpValues}
    /\ transport = [kind |-> "none"]
    /\ identity = [kind |-> "none"]
    /\ agent_keys = <<>>
    /\ server = "none"
    /\ store = "none"
    /\ result = NoResult
    /\ spc = "proxyjump_value"
    /\ serr = "none"
    /\ calls = <<>>

JumpNext == ProxyJumpTokens

SpecJump == InitJump /\ [][JumpNext]_vars

\* ========================================================== _parse_ssh_config
\* str( value ).strip( ).lower( ) of an option value
policy_text(value) == IF value = "Yes" THEN "yes" ELSE value

\* (mutant) the User option is not looked at
verify_ssh_config_policy_without_user(target_lookup) ==
    IF policy_text(target_lookup.stricthostkeychecking) # "yes"
      THEN "ValueError: StrictHostKeyChecking"
    ELSE IF policy_text(target_lookup.verifyhostkeydns) # "yes"
      THEN "ValueError: VerifyHostKeyDNS"
    ELSE IF target_lookup.hostname = "" THEN "KeyError: HostName"
    ELSE IF Len(target_lookup.identityfile) > 1 THEN "ValueError: IdentityFile"
    ELSE IF policy_text(target_lookup.identitiesonly) # "yes"
      THEN "ValueError: IdentitiesOnly"
    ELSE "none"

\* _verify_ssh_config_policy_for_hop: the exception raised, "none" on success
\* (UserKnownHostsFile is a single text in a lookup, never a list: line 85 passes)
verify_ssh_config_policy_for_hop(target_lookup) ==
    IF policy_text(target_lookup.stricthostkeychecking) # "yes"
      THEN "ValueError: StrictHostKeyChecking"
    ELSE IF policy_text(target_lookup.verifyhostkeydns) # "yes"
      THEN "ValueError: VerifyHostKeyDNS"
    ELSE IF target_lookup.hostname = "" THEN "KeyError: HostName"
    ELSE IF target_lookup.user = "" THEN "ValueError: User"
    ELSE IF Len(target_lookup.identityfile) > 1 THEN "ValueError: IdentityFile"
    ELSE IF policy_text(target_lookup.identitiesonly) # "yes"
      THEN "ValueError: IdentitiesOnly"
    ELSE "none"

PolicyErrors ==
    {"ValueError: StrictHostKeyChecking", "ValueError: VerifyHostKeyDNS", "KeyError: HostName",
     "ValueError: User", "ValueError: IdentityFile", "ValueError: IdentitiesOnly"}

\* one call of _parse_ssh_config( demux )
ParseSshConfigCall ==
    /\ spc = "_parse_ssh_config"
    /\ args.kind = "parse"
    /\ IF ~args.isfile
         THEN /\ Ends("FileNotFoundError")
              /\ calls' = Append(calls, "_parse_ssh_config")
              /\ result' = NoResult
         ELSE LET target_lookup == config_lookup(args.ssh_config, args.nird_upload_host)
                  policy == verify_ssh_config_policy_for_hop(target_lookup)
                  r == resolve_proxyjump_chain(args.ssh_config, target_lookup.hostname)
              IN IF policy # "none"
                   THEN /\ Ends(policy)
                        /\ calls' = calls \o <<"_parse_ssh_config",
                                               "_verify_ssh_config_policy_for_hop">>
                        /\ result' = NoResult
                   ELSE /\ Ends(r.err)
                        /\ calls' = calls \o <<"_parse_ssh_config",
                                               "_verify_ssh_config_policy_for_hop",
                                               "_resolve_proxyjump_chain">>
                        /\ result' = IF r.err = "none" THEN Chain(r.hops) ELSE NoResult
    /\ UNCHANGED <<hop, known_hosts, transport, identity, agent_keys, server, store, args>>
    /\ UNCHANGED nirdVars

IdentityFileLists == {[i \in 1..n |-> "id"] : n \in 0..MaxIdentityFiles}
\* the blocks a configuration file may hold for one alias
PolicyOptions(hostnames, proxyjumps) ==
    {HostOptions(h, u, p, s, d, f, o) :
        h \in hostnames, u \in {"u", ""}, p \in proxyjumps, s \in {"yes", "Yes", "no"},
        d \in {"yes", ""}, f \in IdentityFileLists, o \in {"yes", ""}}
StarOptions == HostOptions("", "", <<>>, "yes", "yes", <<>>, "yes")
\* a target block (HostName may name another host, ProxyJump may name j1), a
\* jump host block, and with or without a "Host *" block
ParseConfigs ==
    LET blocks == {[a \in {"t", "j1"} |-> IF a = "t" THEN t ELSE j] :
                     t \in PolicyOptions({"", "x"}, {<<>>, <<"j1">>}),
                     j \in PolicyOptions({""}, {<<>>})}
    IN blocks \cup {[a \in {"t", "j1", "*"} |-> IF a = "*" THEN StarOptions ELSE b[a]] :
                       b \in {c \in blocks : c["j1"] = GoodOptions("", <<>>)}}
ParseArgs ==
    {[kind |-> "parse", isfile |-> TRUE, ssh_config |-> c, nird_upload_host |-> "t"] :
        c \in ParseConfigs}
    \cup {[kind |-> "parse", isfile |-> e, ssh_config |-> c, nird_upload_host |-> h] :
             e \in BOOLEAN, h \in {"t", ""},
             c \in {d \in ParseConfigs : d["t"] = GoodOptions("", <<>>)
                                         /\ d["j1"] = GoodOptions("", <<>>)}}

InitParse ==
    /\ NirdIdle
    /\ NoSession
    /\ args \in ParseArgs
    /\ spc = "_parse_ssh_config"

ParseNext == ParseSshConfigCall

SpecParse == InitParse /\ [][ParseNext]_vars

\* =================================================== _connect_next_proxy_jump
MaxHops == 2
MaxAuthCalls == 2

ConnectErrors ==
    {"socket.error", "ChannelException", "RuntimeError: channel not active",
     "RuntimeError: transport was neither 'None' nor active", "SSHException: handshake",
     "RuntimeError: SSH transport inactive after handshake"}
\* no call is under way: the caller may make its next call
AtRest == spc \in {"idle", "returned", "raised"}
ConnectCalls == {i \in 1..Len(calls) : calls[i] = "_connect_next_proxy_jump"}
AuthenticateCalls == {i \in 1..Len(calls) : calls[i] = "_authenticate_transport"}

\* the call returns next_transport and the caller goes on with it ...
Connected(next_hop, remote_key) ==
    /\ transport' = Transport(remote_key)
    /\ result' = Transport(remote_key)
    /\ hop' = next_hop
    /\ args' = [args EXCEPT !.next = @ + 1]
    /\ Ends("none")
\* ... or the call raises and the caller keeps what it had
NotConnected(e) ==
    /\ Ends(e)
    /\ result' = NoResult
    /\ UNCHANGED <<transport, hop, args>>

\* one call of _connect_next_proxy_jump( hop, transport ) for the next hop of
\* the chain: what the network and the peers answer is theirs to choose
ConnectNextProxyJump ==
    /\ AtRest
    /\ args.kind = "chain"
    /\ serr \notin ConnectErrors
    /\ args.next <= Len(args.hops)
    /\ LET next_hop == args.hops[args.next]
           handshake(opened) ==
               \E shaken \in BOOLEAN, active \in BOOLEAN, k \in Keys :
                   /\ calls' = calls \o <<"_connect_next_proxy_jump", opened, "Transport",
                                          "start_client">>
                   /\ IF ~shaken THEN NotConnected("SSHException: handshake")
                      ELSE IF ~active
                        THEN NotConnected("RuntimeError: SSH transport inactive after handshake")
                      ELSE Connected(next_hop, k)
       IN IF transport.kind = "none"
            THEN \/ /\ calls' = calls \o <<"_connect_next_proxy_jump", "socket.create_connection">>
                    /\ NotConnected("socket.error")
                 \/ handshake("socket.create_connection")
          ELSE IF transport.active
            THEN \/ /\ calls' = calls \o <<"_connect_next_proxy_jump", "open_channel">>
                    /\ \E e \in {"ChannelException", "RuntimeError: channel not active"} :
                          NotConnected(e)
                 \/ handshake("open_channel")
          ELSE /\ calls' = Append(calls, "_connect_next_proxy_jump")
               /\ NotConnected("RuntimeError: transport was neither 'None' nor active")
    /\ server' \in {"accept", "reject", "closed"}
    /\ UNCHANGED <<known_hosts, identity, agent_keys, store>>
    /\ UNCHANGED nirdVars

\* the caller calls _authenticate_transport( hop, transport ) on what it holds
CallAuthenticateTransport ==
    /\ AtRest
    /\ args.kind = "chain"
    /\ transport.kind = "transport"
    /\ Cardinality(AuthenticateCalls) < MaxAuthCalls
    /\ spc' = "_authenticate_transport"
    /\ serr' = "none"
    /\ UNCHANGED <<hop, known_hosts, transport, identity, agent_keys, server, store, args,
                   result, calls>>
    /\ UNCHANGED nirdVars

ChainHops == {ConfigHop("h", "22", "u", <<"id">>), ConfigHop("g", "22", "u", <<>>)}

InitChain ==
    /\ NirdIdle
    /\ hop = [kind |-> "none"]
    /\ known_hosts = [exists |-> FALSE, lines |-> <<>>]
    /\ transport = [kind |-> "none"]
    /\ identity = Identity("regular", "plain", "A")
    /\ agent_keys \in {<<>>, <<"A">>}
    /\ server = "none"
    /\ store = "ok"
    /\ args \in {[kind |-> "chain", hops |-> h, next |-> 1] : h \in [1..MaxHops -> ChainHops]}
    /\ result = NoResult
    /\ spc = "idle"
    /\ serr = "none"
    /\ calls = <<>>

ChainNext ==
    \/ ConnectNextProxyJump
    \/ CallAuthenticateTransport
    \/ AuthNext

SpecChain == InitChain /\ [][ChainNext]_vars

\* ================================================= the session of one upload
\* The step that builds demux.transport before _upload_files_to_nird runs is
\* not part of these sources; it is taken from the lifecycle of a transport:
\* created, host-key validated, authenticated, then used, and any failure
\* before the authentication ends the run.

\* the connector has returned the transport: its host key is validated next
SessionCallValidateHostkey ==
    /\ args.kind = "chain"
    /\ spc = "returned"
    /\ transport.kind = "transport"
    /\ \A i \in 1..Len(calls) : calls[i] # "_validate_hostkey"
    /\ spc' = "_validate_hostkey"
    /\ serr' = "none"
    /\ UNCHANGED <<hop, known_hosts, transport, identity, agent_keys, server, store, args,
                   result, calls>>
    /\ UNCHANGED nirdVars

\* the validation has returned: the transport is authenticated next
SessionCallAuthenticateTransport ==
    /\ args.kind = "chain"
    /\ spc = "returned"
    /\ \E i \in 1..Len(calls) : calls[i] = "_validate_hostkey"
    /\ AuthenticateCalls = {}
    /\ spc' = "_authenticate_transport"
    /\ serr' = "none"
    /\ UNCHANGED <<hop, known_hosts, transport, identity, agent_keys, server, store, args,
                   result, calls>>
    /\ UNCHANGED nirdVars

\* the authentication has returned: the transport is handed to the uploader
SessionReady ==
    /\ args.kind = "chain"
    /\ spc = "returned"
    /\ AuthenticateCalls # {}

SessionKnownHosts ==
    {[exists |-> TRUE, lines |-> <<HostKeyEntry("h", k), HostKeyEntry("g", k)>>] :
        k \in {PKey("ssh-rsa", "k1")}}

InitSession ==
    /\ tarFilesToTransferList = <<1>>
    /\ absoluteFilesToTransferList \in
          [1..1 -> {StandardEntry(PathA),
                    FileEntry(PathA, Md5PathOf(PathA), ShaPathOf(PathA), <<>>, GoodShaText)}]
    /\ remote \in UnitRemotes
    /\ nird_access_mode \in {NIRD_MODE_SSH, NIRD_MODE_SSH_2FA}
    /\ nird_copy_mode = SERIAL_COPYING
    /\ max_workers = 1
    /\ dpc = "entry"
    /\ idx = 1
    /\ raised = NotRaised
    /\ pc = <<"idle">>
    /\ err = <<"none">>
    /\ started = <<>>
    /\ existedAtCall = <<FALSE>>
    /\ hop = [kind |-> "none"]
    /\ known_hosts \in SessionKnownHosts
    /\ transport = [kind |-> "none"]
    /\ identity = Identity("regular", "plain", "A")
    /\ agent_keys \in {<<>>, <<"A">>}
    /\ server = "none"
    /\ store = "ok"
    /\ args \in {[kind |-> "chain", hops |-> <<h>>, next |-> 1] : h \in ChainHops}
    /\ result = NoResult
    /\ spc = "idle"
    /\ serr = "none"
    /\ calls = <<>>

SessionNext ==
    \/ ConnectNextProxyJump
    \/ SessionCallValidateHostkey
    \/ ValidateHostkeyCall
    \/ SessionCallAuthenticateTransport
    \/ AuthNext
    \/ SessionReady /\ Dispatch
    \/ SerialCall
    \/ \E u \in Units : Stat(u)
    \/ \E u \in Units : Put(u)
    \/ \E u \in Units : Verify(u)

SpecSession == InitSession /\ [][SessionNext]_vars

\* ============================================================ SFTP sessions
\* The remote side as one call meets it: what is at the target path ("absent",
\* a "file", a "dir"), what the call has written there and whether it made the
\* directory.
RemoteKinds == {"absent", "file", "dir"}
RemoteTarget(target, written, made) ==
    [kind |-> "fs", target |-> target, written |-> written, made |-> made]
\* the transport handed to the call: active or closed by the peer, authenticated
\* or not (no call looks at that)
SftpTransports ==
    {[Transport(k) EXCEPT !.active = a, !.authenticated = b] :
        k \in {PKey("ssh-rsa", "k1")}, a \in BOOLEAN, b \in BOOLEAN}
\* remote paths given to the calls: absolute or not
SftpPaths == {<<"/", "d">>, <<"d">>}

\* the call ends with exception e ("none": it returns) after the steps of log,
\* leaving the remote side as fs
Outcome(log, e, fs) ==
    /\ calls' = calls \o log
    /\ Ends(e)
    /\ server' = fs

\* what a failed stat ends the call with: the stat-failed error for an OSError,
\* the error of paramiko itself when the connection dropped
StatErrors == {"SSHException: stat failed", "SSHException: connection dropped"}

\* (mutant) the directory is made whatever the stat found
EnsureRemoteDirMakingAlways ==
    /\ spc = "_ensure_remote_dir_via_sftp"
    /\ args.kind = "ensure_dir"
    /\ Outcome(<<"_ensure_remote_dir_via_sftp", "sftp_open", "stat", "mkdir", "sftp_close">>,
               "none", RemoteTarget("dir", server.written, TRUE))
    /\ UNCHANGED <<hop, known_hosts, transport, identity, agent_keys, store, args, result>>
    /\ UNCHANGED nirdVars

\* one call of _ensure_remote_dir_via_sftp( demux, remote_absolute_dir_path );
\* "critical" is a demuxLogger.critical record
EnsureRemoteDirViaSftp ==
    /\ spc = "_ensure_remote_dir_via_sftp"
    /\ args.kind = "ensure_dir"
    /\ LET f == "_ensure_remote_dir_via_sftp"
           opened == <<f, "sftp_open", "stat">>
       IN \/ /\ ~transport.active
             /\ Outcome(<<f>>, "OSError: getpeername", server)
          \/ IF ~isabs(args.path)
               THEN Outcome(<<f>>, "RuntimeError: not in absolute path", server)
             ELSE IF ~transport.active
               THEN Outcome(<<f, "critical">>, "SSHException: transport not active", server)
             ELSE \/ Outcome(<<f, "sftp_failed", "critical">>,
                             "SSHException: failed to create SFTP session", server)
                  \/ Outcome(opened \o <<"critical", "sftp_close">>, "SSHException: stat failed",
                             server)
                  \/ Outcome(opened \o <<"sftp_close">>, "SSHException: connection dropped",
                             server)
                  \/ CASE server.target = "dir" ->
                            Outcome(opened \o <<"critical", "sftp_close">>,
                                    "SSHException: already exists", server)
                       [] server.target = "file" ->
                            Outcome(opened \o <<"sftp_close">>,
                                    "SSHException: exists but is not a directory", server)
                       [] OTHER ->
                            \/ Outcome(opened \o <<"mkdir", "sftp_close">>, "none",
                                       RemoteTarget("dir", server.written, TRUE))
                            \/ Outcome(opened \o <<"mkdir", "critical", "sftp_close">>,
                                       "SSHException: cannot create", server)
    /\ UNCHANGED <<hop, known_hosts, transport, identity, agent_keys, store, args, result>>
    /\ UNCHANGED nirdVars

\* (mutant) the session of a failed put is left open
SagaUploadTarViaScpLeaking ==
    /\ spc = "_upload_tar_via_scp"
    /\ args.kind = "saga_put"
    /\ transport.kind = "transport"
    /\ transport.active
    /\ \/ Outcome(<<"_upload_tar_via_scp", "sftp_open", "putfo", "sftp_close">>, "none",
                  RemoteTarget("file", "whole", server.made))
       \/ Outcome(<<"_upload_tar_via_scp", "sftp_open", "putfo">>, "NameError", server)
    /\ UNCHANGED <<hop, known_hosts, transport, identity, agent_keys, store, args, result>>
    /\ UNCHANGED nirdVars

\* one call of _upload_tar_via_scp of upload_atlas_file_to_saga: no stat of
\* saga_location comes before the putfo; "from error" in the two bare except
\* blocks names nothing that is bound
SagaUploadTarViaScp ==
    /\ spc = "_upload_tar_via_scp"
    /\ args.kind = "saga_put"
    /\ LET f == "_upload_tar_via_scp"
           opened == <<f, "sftp_open", "putfo", "sftp_close">>
       IN IF transport.kind = "none"
            THEN Outcome(<<f>>, "AttributeError", server)
          ELSE IF ~transport.active
            THEN Outcome(<<f>>, "OSError", server)
          ELSE \/ Outcome(<<f, "sftp_failed">>, "NameError", server)
               \/ /\ server.target # "dir"
                  /\ Outcome(opened, "none", RemoteTarget("file", "whole", server.made))
               \/ Outcome(opened, "NameError", server)
               \/ /\ server.target # "dir"
                  /\ Outcome(opened, "NameError", RemoteTarget("file", "partial", server.made))
    /\ UNCHANGED <<hop, known_hosts, transport, identity, agent_keys, store, args, result>>
    /\ UNCHANGED nirdVars

\* one call of _upload_tar_via_scp of upload_files_to_nird, as its sessions
\* show it: the SFTP session of the stat, then the SCP session of the puts
NirdUploadTarViaScp ==
    /\ spc = "_upload_tar_via_scp"
    /\ args.kind = "nird_put"
    /\ LET f == "_upload_tar_via_scp"
           checked == <<f, "sftp_open", "stat", "sftp_close">>
           put == checked \o <<"scp_open", "put", "scp_close">>
       IN IF ~isabs(args.path)
            THEN Outcome(<<f>>, "RuntimeError: Remote path is not absolute", server)
          ELSE \/ Outcome(<<f, "sftp_failed">>, "SSHException", server)
               \/ \E e \in {"OSError", "SSHException"} : Outcome(checked, e, server)
               \/ IF server.target # "absent"
                    THEN Outcome(<<f, "sftp_open", "stat", "critical", "sftp_close">>,
                                 "RuntimeError: Remote file already exists", server)
                    ELSE \/ Outcome(put, "none", RemoteTarget("file", "whole", server.made))
                         \/ \E e \in PutErrors, w \in {"no", "partial"} :
                               Outcome(put, e,
                                       IF w = "no" THEN server
                                       ELSE RemoteTarget("file", "partial", server.made))
    /\ UNCHANGED <<hop, known_hosts, transport, identity, agent_keys, store, args, result>>
    /\ UNCHANGED nirdVars

SftpArgs ==
    {[kind |-> "ensure_dir", path |-> p] : p \in SftpPaths}
    \cup {[kind |-> "nird_put", path |-> p] : p \in SftpPaths}
    \cup {[kind |-> "saga_put", path |-> <<"/", "d">>]}

InitSftp ==
    /\ NirdIdle
    /\ hop = [kind |-> "none"]
    /\ known_hosts = [exists |-> FALSE, lines |-> <<>>]
    /\ args \in SftpArgs
    /\ transport \in SftpTransports \cup
                     (IF args.kind = "saga_put" THEN {[kind |-> "none"]} ELSE {})
    /\ identity = [kind |-> "none"]
    /\ agent_keys = <<>>
    /\ server \in {RemoteTarget(t, "no", FALSE) : t \in RemoteKinds}
    /\ store = "none"
    /\ result = NoResult
    /\ spc = IF args.kind = "ensure_dir" THEN "_ensure_remote_dir_via_sftp"
             ELSE "_upload_tar_via_scp"
    /\ serr = "none"
    /\ calls = <<>>

SftpNext ==
    \/ EnsureRemoteDirViaSftp
    \/ SagaUploadTarViaScp
    \/ NirdUploadTarViaScp

SpecSftp == InitSftp /\ [][SftpNext]_vars

\* ================== _verify_remote_hashes_against_local_files, thread by thread
\* the keys of the results dictionary, one per command channel and drain thread
HashKeys == {"md5", "sha512"}
HashDigest(k, c) == IF k = "md5" THEN Md5Of(c) ELSE Sha512Of(c)
\* what a remote hash command leaves on its channel: a failure, or the digest
\* line of whatever content the remote path holds
HashCommands(k) == {HashFailure} \cup {HashOutput(HashDigest(k, c), PathA) : c \in Contents}
\* local checksum files: as packaged, of another content, or empty
LocalTexts(k) == {HashDigest(k, LocalPayload) \o <<" ">>, HashDigest(k, "q"), <<>>}

\* the channels of the call and the state of the threads draining them
Channels(md5, sha512) == [kind |-> "channels", md5 |-> md5, sha512 |-> sha512]
Draining(results, thread) == [kind |-> "verify", results |-> results, thread |-> thread]
NoResults == [k \in HashKeys |-> Missing]

\* lines 52-56: two sessions on the transport, one command on each. Opening a
\* session on a transport that is not active raises SSHException; so may any
\* open_session or exec_command on an active one, and then a channel opened
\* before it stays open
OpenSessions ==
    /\ spc = "_verify_remote_hashes_against_local_files"
    /\ \/ /\ transport.active
          /\ server' = Channels("running", "running")
          /\ Goes("start_md5")
       \/ /\ server' \in {Channels(m, s) : m \in {"none", "open", "running"}, s \in {"none", "open"}}
          /\ ~transport.active => server' = server
          /\ Ends("SSHException")
    /\ UNCHANGED <<hop, known_hosts, transport, identity, agent_keys, store, args, result, calls>>
    /\ UNCHANGED nirdVars

\* lines 64-65: md5_thread.start( ), then sha512_thread.start( )
StartThread ==
    /\ spc \in {"start_md5", "start_sha512"}
    /\ LET k == IF spc = "start_md5" THEN "md5" ELSE "sha512"
       IN result' = [result EXCEPT !.thread[k] = "read"]
    /\ Goes(IF spc = "start_md5" THEN "start_sha512" ELSE "join_md5")
    /\ UNCHANGED <<hop, known_hosts, transport, identity, agent_keys, server, store, args, calls>>
    /\ UNCHANGED nirdVars

\* _drain_channel, the try block: stdout, stderr and exit status are read and
\* stored under the key, unless one of the reads raises
DrainRead(k) ==
    /\ result.kind = "verify"
    /\ result.thread[k] = "read"
    /\ result' = [result EXCEPT !.thread[k] = "close",
                                !.results[k] = IF k \in args.raises THEN @ ELSE args[k]]
    /\ UNCHANGED <<hop, known_hosts, transport, identity, agent_keys, server, store, args,
                   spc, serr, calls>>
    /\ UNCHANGED nirdVars

\* _drain_channel, the finally block: channel.close( ), and the thread is over
DrainClose(k) ==
    /\ result.kind = "verify"
    /\ result.thread[k] = "close"
    /\ result' = [result EXCEPT !.thread[k] = "finished"]
    /\ server' = [server EXCEPT ![k] = "closed"]
    /\ calls' = Append(calls, k)
    /\ UNCHANGED <<hop, known_hosts, transport, identity, agent_keys, store, args, spc, serr>>
    /\ UNCHANGED nirdVars

\* (mutant) the main thread goes on without waiting for the thread
JoinThreadNotWaiting ==
    /\ spc \in {"join_md5", "join_sha512"}
    /\ Goes(IF spc = "join_md5" THEN "join_sha512" ELSE "unpack")
    /\ UNCHANGED <<hop, known_hosts, transport, identity, agent_keys, server, store, args,
                   result, calls>>
    /\ UNCHANGED nirdVars

\* lines 66-67: md5_thread.join( ), then sha512_thread.join( )
JoinThread ==
    /\ spc \in {"join_md5", "join_sha512"}
    /\ LET k == IF spc = "join_md5" THEN "md5" ELSE "sha512"
       IN result.thread[k] = "finished"
    /\ Goes(IF spc = "join_md5" THEN "join_sha512" ELSE "unpack")
    /\ UNCHANGED <<hop, known_hosts, transport, identity, agent_keys, server, store, args,
                   result, calls>>
    /\ UNCHANGED nirdVars

\* lines 72 and 77: results[ "md5" ] and results[ "sha512" ] are unpacked
UnpackResults ==
    /\ spc = "unpack"
    /\ calls' = Append(calls, "unpack")
    /\ IF \E k \in HashKeys : result.results[k] = Missing
         THEN Ends("KeyError")
         ELSE Goes("status")
    /\ UNCHANGED <<hop, known_hosts, transport, identity, agent_keys, server, store, args, result>>
    /\ UNCHANGED nirdVars

\* lines 79-87: the two exit statuses
CheckExitStatus ==
    /\ spc = "status"
    /\ calls' = Append(calls, "status")
    /\ IF result.results["md5"].status # 0 THEN Ends("Md5sumFailed")
       ELSE IF result.results["sha512"].status # 0 THEN Ends("Sha512sumFailed")
       ELSE Goes("compare")
    /\ UNCHANGED <<hop, known_hosts, transport, identity, agent_keys, server, store, args, result>>
    /\ UNCHANGED nirdVars

\* lines 89-115: the first tokens of the two outputs and of the two local
\* files, then the two comparisons
CompareDigests ==
    /\ spc = "compare"
    /\ calls' = Append(calls, "compare")
    /\ Ends(VerifyResult(result.results["md5"], result.results["sha512"],
                         args.md5_file_local, args.sha512_file_local))
    /\ UNCHANGED <<hop, known_hosts, transport, identity, agent_keys, server, store, args, result>>
    /\ UNCHANGED nirdVars

\* a call: what each command produces, the two local checksum files, and the
\* drain threads whose reads raise
HashArgs ==
    {[kind |-> "verify", md5 |-> m, sha512 |-> s, md5_file_local |-> mt,
      sha512_file_local |-> st, raises |-> r] :
        m \in HashCommands("md5"), s \in HashCommands("sha512"),
        mt \in LocalTexts("md5"), st \in LocalTexts("sha512"), r \in SUBSET HashKeys}

InitHash ==
    /\ NirdIdle
    /\ hop = [kind |-> "none"]
    /\ known_hosts = [exists |-> FALSE, lines |-> <<>>]
    /\ args \in HashArgs
    /\ transport \in {t \in SftpTransports : t.authenticated}
    /\ identity = [kind |-> "none"]
    /\ agent_keys = <<>>
    /\ server = Channels("none", "none")
    /\ store = "none"
    /\ result = Draining(NoResults, [k \in HashKeys |-> "new"])
    /\ spc = "_verify_remote_hashes_against_local_files"
    /\ serr = "none"
    /\ calls = <<>>

HashNext ==
    \/ OpenSessions
    \/ StartThread
    \/ \E k \in HashKeys : DrainRead(k)
    \/ \E k \in HashKeys : DrainClose(k)
    \/ JoinThread
    \/ UnpackResults
    \/ CheckExitStatus
    \/ CompareDigests

SpecHash == InitHash /\ [][HashNext]_vars

\* ======================================================== _resolve_hostname
MaxCallers == 2
MaxResolveCalls == 2

\* the threads whose progress callbacks call _resolve_hostname, and the peer
\* addresses they report
Callers == 1..MaxCallers
IpAddresses == {"10.0.0.1", "10.0.0.2"}
\* what socket.gethostbyaddr answers: a name, or socket.herror
DnsAnswers == {"name", "herror"}
NoHostname == "none"
EmptyCache == [ip \in IpAddresses |-> NoHostname]

\* the function attribute _resolve_hostname.cache (0: not set yet, else the
\* dictionary it refers to), the dictionaries created so far, the hostnames
\* returned so far per address, and each thread in its call
Resolving(attr, heap, returned, thread) ==
    [kind |-> "resolve", attr |-> attr, heap |-> heap, returned |-> returned, thread |-> thread]
CallerIdle == [pc |-> "idle", ip |-> "none", cache |-> 0, hostname |-> NoHostname, made |-> 0]
At(t, p) == result.kind = "resolve" /\ result.thread[t].pc = p
Moves(t, p) == result' = [result EXCEPT !.thread[t].pc = p]
ResolveUnchanged ==
    /\ UNCHANGED <<hop, known_hosts, transport, identity, agent_keys, server, store, args,
                   spc, serr>>
    /\ UNCHANGED nirdVars

\* progress4 calls _resolve_hostname( peername[ 0 ] )
ResolveBegin(t) ==
    /\ At(t, "idle")
    /\ result.thread[t].made < MaxResolveCalls
    /\ \E ip \in IpAddresses :
          result' = [result EXCEPT !.thread[t] = [@ EXCEPT !.pc = "hasattr", !.ip = ip,
                                                           !.made = @ + 1]]
    /\ UNCHANGED calls
    /\ ResolveUnchanged

\* line 143: hasattr( _resolve_hostname, "cache" )
ResolveHasAttr(t) ==
    /\ At(t, "hasattr")
    /\ Moves(t, IF result.attr = 0 THEN "setattr" ELSE "bind")
    /\ UNCHANGED calls
    /\ ResolveUnchanged

\* line 144: _resolve_hostname.cache = { }
ResolveSetAttr(t) ==
    /\ At(t, "setattr")
    /\ result' = [result EXCEPT !.heap = Append(@, EmptyCache),
                                !.attr = Len(result.heap) + 1,
                                !.thread[t].pc = "bind"]
    /\ UNCHANGED calls
    /\ ResolveUnchanged

\* line 146: cache = _resolve_hostname.cache
ResolveBind(t) ==
    /\ At(t, "bind")
    /\ result' = [result EXCEPT !.thread[t] = [@ EXCEPT !.pc = "test", !.cache = result.attr]]
    /\ UNCHANGED calls
    /\ ResolveUnchanged

\* line 148: ip_address not in cache
ResolveTest(t) ==
    /\ At(t, "test")
    /\ LET me == result.thread[t]
       IN Moves(t, IF result.heap[me.cache][me.ip] = NoHostname THEN "gethostbyaddr" ELSE "return")
    /\ UNCHANGED calls
    /\ ResolveUnchanged

\* lines 149-152: socket.gethostbyaddr( ip_address ), the address itself on herror
ResolveLookup(t) ==
    /\ At(t, "gethostbyaddr")
    /\ LET me == result.thread[t]
       IN /\ calls' = Append(calls, me.ip)
          /\ \E answer \in DnsAnswers :
                result' = [result EXCEPT !.thread[t] =
                              [@ EXCEPT !.pc = "store",
                                        !.hostname = IF answer = "herror" THEN me.ip ELSE answer]]
    /\ ResolveUnchanged

\* line 153: cache[ ip_address ] = hostname
ResolveStore(t) ==
    /\ At(t, "store")
    /\ LET me == result.thread[t]
       IN result' = [result EXCEPT !.heap[me.cache][me.ip] = me.hostname,
                                   !.thread[t].pc = "return"]
    /\ UNCHANGED calls
    /\ ResolveUnchanged

\* line 155: return cache[ ip_address ]
ResolveReturn(t) ==
    /\ At(t, "return")
    /\ LET me == result.thread[t]
       IN result' = [result EXCEPT !.returned = @ \cup {<<me.ip, result.heap[me.cache][me.ip]>>},
                                   !.thread[t] = [CallerIdle EXCEPT !.made = me.made]]
    /\ UNCHANGED calls
    /\ ResolveUnchanged

\* a process in which no callback has run yet
InitCache ==
    /\ NirdIdle
    /\ hop = [kind |-> "none"]
    /\ known_hosts = [exists |-> FALSE, lines |-> <<>>]
    /\ args = [kind |-> "resolve"]
    /\ transport = [kind |-> "none"]
    /\ identity = [kind |-> "none"]
    /\ agent_keys = <<>>
    /\ server = "none"
    /\ store = "none"
    /\ result = Resolving(0, <<>>, {}, [t \in Callers |-> CallerIdle])
    /\ spc = "progress4"
    /\ serr = "none"
    /\ calls = <<>>

CacheNext ==
    \E t \in Callers :
        \/ ResolveBegin(t)
        \/ ResolveHasAttr(t)
        \/ ResolveSetAttr(t)
        \/ ResolveBind(t)
        \/ ResolveTest(t)
        \/ ResolveLookup(t)
        \/ ResolveStore(t)
        \/ ResolveReturn(t)

SpecCache == InitCache /\ [][CacheNext]_vars

\* ====================================================== _upload_csv_to_saga
SAGA_LOGIN == "login.saga.sigma2.no"

Digits == {"1", "2", "3", "4", "5", "6"}
Alnum == Digits \cup {"u", "f", "d", "c", "s", "v", "t", "x", "p", "C", "S", "V"}
Contains(s, c) == \E i \in 1..Len(s) : s[i] = c
\* str.isalnum, str.isdigit: false for the empty string
isalnum(s) == s # <<>> /\ \A i \in 1..Len(s) : s[i] \in Alnum
isdigit(s) == s # <<>> /\ \A i \in 1..Len(s) : s[i] \in Digits
\* str.lower on the characters in use
UpperCase ==
    <<"A", "B", "C", "D", "E", "F", "G", "H", "I", "J", "K", "L", "M",
      "N", "O", "P", "Q", "R", "S", "T", "U", "V", "W", "X", "Y", "Z">>
LowerCase ==
    <<"a", "b", "c", "d", "e", "f", "g", "h", "i", "j", "k", "l", "m",
      "n", "o", "p", "q", "r", "s", "t", "u", "v", "w", "x", "y", "z">>
LowerChar(c) ==
    IF \E i \in 1..Len(UpperCase) : UpperCase[i] = c
      THEN LowerCase[CHOOSE i \in 1..Len(UpperCase) : UpperCase[i] = c]
      ELSE c
lower(s) == [i \in 1..Len(s) |-> LowerChar(s[i])]
\* index of the last c in s, 0 when there is none
LastIndexOf(s, c) ==
    IF Contains(s, c) THEN CHOOSE i \in 1..Len(s) : s[i] = c /\ \A j \in (i + 1)..Len(s) : s[j] # c
    ELSE 0
\* os.path.basename, and the second component of os.path.splitext
basename(p) == SubSeq(p, LastIndexOf(p, "/") + 1, Len(p))
splitext_ext(b) ==
    LET i == LastIndexOf(b, ".")
    IN IF i = 0 \/ \A j \in 1..i : b[j] = "." THEN <<>> ELSE SubSeq(b, i, Len(b))

SagaFiles == {"missing", "empty", "data"}
Usernames == {<<>>, <<"u">>, <<"*">>, <<"u", " ">>}
Totps == {<<>>, <<"1", "2", "3", "4", "5", "6">>, <<"1", "2", "3">>,
          <<"1", "2", "3", "4", "5", "*">>}
Passwords == {<<>>, <<"p">>, <<"*">>}
SagaLocations ==
    {<<>>, <<"/", "f", ".", "c", "s", "v">>, <<"/", "f", ".", "C", "S", "V">>,
     <<"/", "f", ".", "t", "x", "t">>, <<"/", "d", "/">>, <<"f", ".", "c", "s", "v">>}
SagaArgs ==
    {[kind |-> "saga", file |-> f, username |-> u, totp |-> t, password |-> p,
      saga_location |-> l] :
        f \in SagaFiles, u \in Usernames, t \in Totps, p \in Passwords, l \in SagaLocations}

\* _preflight_check: the RuntimeError it raises, named by its message
preflight_check(a) ==
    LET base == basename(a.saga_location)
    IN IF a.file = "empty" THEN "RuntimeError: file length zero"
       ELSE IF a.username = <<>> THEN "RuntimeError: username required"
       ELSE IF Contains(a.username, "*") THEN "RuntimeError: * in username"
       ELSE IF ~isalnum(a.username) THEN "RuntimeError: username not alphanumeric"
       ELSE IF a.totp = <<>> THEN "RuntimeError: token required"
       ELSE IF ~isdigit(a.totp) \/ Len(a.totp) # 6 THEN "RuntimeError: token not six digits"
       ELSE IF Contains(a.totp, "*") THEN "RuntimeError: * in totp"
       ELSE IF a.password = <<>> THEN "RuntimeError: empty password"
       ELSE IF Contains(a.password, "*") THEN "RuntimeError: * in password"
       ELSE IF a.saga_location = <<>> THEN "RuntimeError: location required"
       ELSE IF ~isabs(a.saga_location) THEN "RuntimeError: location not absolute"
       ELSE IF base = <<>> \/ (~(base # <<"/">>) /\
                               lower(splitext_ext(base)) = <<".", "c", "s", "v">>)
         THEN "RuntimeError: no csv filename"
       ELSE "none"

\* (mutant) the error of _preflight_check is dropped and the connection is opened
SagaPreflightCheckDropped ==
    /\ spc = "_upload_csv_to_saga"
    /\ IF args.file = "missing"
         THEN Ends("FileNotFoundError") /\ calls' = Append(calls, "_upload_csv_to_saga")
         ELSE /\ calls' = calls \o <<"_upload_csv_to_saga", "_preflight_check">>
              /\ Goes("_connect")
    /\ UNCHANGED <<hop, known_hosts, transport, identity, agent_keys, server, store, args, result>>
    /\ UNCHANGED nirdVars

\* _upload_csv_to_saga, lines 166-176: the file is read and the inputs are checked
SagaPreflightCheck ==
    /\ spc = "_upload_csv_to_saga"
    /\ IF args.file = "missing"
         THEN Ends("FileNotFoundError") /\ calls' = Append(calls, "_upload_csv_to_saga")
         ELSE /\ calls' = calls \o <<"_upload_csv_to_saga", "_preflight_check">>
              /\ LET e == preflight_check(args)
                 IN IF e = "none" THEN Goes("_connect") ELSE Ends(e)
    /\ UNCHANGED <<hop, known_hosts, transport, identity, agent_keys, server, store, args, result>>
    /\ UNCHANGED nirdVars

\* _upload_csv_to_saga, line 178. _connect is imported from ssh_transport, which
\* does not define it; it is taken as the connector of a first hop: a TCP
\* connection and the client handshake give a live, unauthenticated transport.
SagaConnect ==
    /\ spc = "_connect"
    /\ calls' = Append(calls, "_connect")
    /\ \/ \E k \in Keys : transport' = Transport(k) /\ Goes("_validate_hostkey")
       \/ \E e \in {"TransportCreationFailed", "TransportInactive"} :
             Ends(e) /\ UNCHANGED transport
    /\ UNCHANGED <<hop, known_hosts, identity, agent_keys, server, store, args, result>>
    /\ UNCHANGED nirdVars

\* (mutant) a failed host-key validation is passed over
SagaValidateHostkeyPassedOver ==
    /\ spc = "_validate_hostkey"
    /\ hop = StrHop(SAGA_LOGIN)
    /\ calls' = Append(calls, "_validate_hostkey")
    /\ Goes("_authenticate_transport")
    /\ UNCHANGED <<hop, known_hosts, transport, identity, agent_keys, server, store, args, result>>
    /\ UNCHANGED nirdVars

\* _upload_csv_to_saga, line 179: _validate_hostkey( hop, transport ) on the str
SagaValidateHostkey ==
    /\ spc = "_validate_hostkey"
    /\ hop = StrHop(SAGA_LOGIN)
    /\ calls' = Append(calls, "_validate_hostkey")
    /\ LET e == validate_hostkey(hop, known_hosts, transport.remote_key)
       IN IF e = "none" THEN Goes("_authenticate_transport") ELSE Ends(e)
    /\ UNCHANGED <<hop, known_hosts, transport, identity, agent_keys, server, store, args, result>>
    /\ UNCHANGED nirdVars

InitSaga ==
    /\ NirdIdle
    /\ hop = StrHop(SAGA_LOGIN)
    /\ known_hosts \in {[exists |-> FALSE, lines |-> <<>>],
                        [exists |-> TRUE,
                         lines |-> <<HostKeyEntry("h", PKey("ssh-rsa", "k1"))>>]}
    /\ transport = [kind |-> "none"]
    /\ identity = [kind |-> "none"]
    /\ agent_keys = <<>>
    /\ server = "none"
    /\ store = "none"
    /\ args \in SagaArgs
    /\ result = [kind |-> "none"]
    /\ spc = "_upload_csv_to_saga"
    /\ serr = "none"
    /\ calls = <<>>

SagaNext ==
    \/ SagaPreflightCheck
    \/ SagaConnect
    \/ SagaValidateHostkey

SpecSaga == InitSaga /\ [][SagaNext]_vars

\* ===================================== _auth_transport_2fa, _kbdint_handler
MaxPrompts == 2

\* the pieces server prompts are made of, character by character
WordPassword == <<"P", "a", "s", "s", "w", "o", "r", "d">>
WordOneTime == <<"O", "n", "e", "-", "t", "i", "m", "e", " ">>
WordPass == <<"p", "a", "s", "s">>
WordWord == <<"w", "o", "r", "d">>
WordTotp == <<"T", "O", "T", "P">>
WordToken == <<"T", "o", "k", "e", "n">>
WordVerification == <<"V", "e", "r", "i", "f", "i", "c", "a", "t", "i", "o", "n", " ">>
WordCode == <<"c", "o", "d", "e">>
WordUser == <<"U", "s", "e", "r", ":", " ">>
PromptWords ==
    {WordPassword, WordOneTime, WordPass, WordWord,
     WordTotp, WordToken, WordVerification, WordCode,
     WordUser}
\* prompt texts: empty, one piece, or two pieces in a row
PromptTexts ==
    {<<>>} \cup PromptWords
           \cup {a \o b : a \in {WordOneTime, WordPass, WordUser}, b \in PromptWords}
\* prompt_list: up to MaxPrompts ( prompt_text, echo ) pairs; the handler never
\* reads echo
PromptLists == UNION {[1..n -> PromptTexts \X {FALSE}] : n \in 0..MaxPrompts}

\* sub in s, on str
IsSubstring(sub, s) == \E i \in 0..(Len(s) - Len(sub)) : SubSeq(s, i + 1, i + Len(sub)) = sub

\* the literals of the handler
OneTimePasswordLiteral == WordOneTime \o lower(WordPassword)
TotpLiteral == lower(WordTotp)
TokenLiteral == lower(WordToken)
VerificationLiteral == <<"v", "e", "r", "i", "f", "i", "c", "a", "t", "i", "o", "n">>
CodeLiteral == WordCode
PasswordLiteral == lower(WordPassword)

\* (mutant) the password branch is tried first
kbdint_response_password_first(prompt_text, totp, password) ==
    LET prompt_lower == lower(prompt_text)
    IN IF IsSubstring(PasswordLiteral, prompt_lower) THEN password
       ELSE IF \/ IsSubstring(lower(OneTimePasswordLiteral), prompt_lower)
               \/ IsSubstring(TotpLiteral, prompt_lower)
               \/ IsSubstring(TokenLiteral, prompt_lower)
               \/ IsSubstring(VerificationLiteral, prompt_lower)
               \/ IsSubstring(CodeLiteral, prompt_lower)
         THEN totp
       ELSE <<>>

\* lines 396-402: the response to one prompt
kbdint_response(prompt_text, totp, password) ==
    LET prompt_lower == lower(prompt_text)
    IN IF \/ IsSubstring(lower(OneTimePasswordLiteral), prompt_lower)
          \/ IsSubstring(TotpLiteral, prompt_lower)
          \/ IsSubstring(TokenLiteral, prompt_lower)
          \/ IsSubstring(VerificationLiteral, prompt_lower)
          \/ IsSubstring(CodeLiteral, prompt_lower)
         THEN totp
       ELSE IF IsSubstring(PasswordLiteral, prompt_lower) THEN password
       ELSE <<>>

\* lines 394-403: the loop over prompt_list, appending one response per prompt
RECURSIVE kbdint_loop(_, _, _, _, _)
kbdint_loop(prompt_list, i, responses, totp, password) ==
    IF i > Len(prompt_list) THEN responses
    ELSE kbdint_loop(prompt_list, i + 1,
                     Append(responses, kbdint_response(prompt_list[i][1], totp, password)),
                     totp, password)
kbdint_handler(prompt_list, totp, password) == kbdint_loop(prompt_list, 1, <<>>, totp, password)

Responses(r) == [kind |-> "responses", responses |-> r]

\* the server calls the handler with a prompt list
KbdintHandlerCall ==
    /\ spc = "_kbdint_handler"
    /\ calls' = Append(calls, "_kbdint_handler")
    /\ result' = Responses(kbdint_handler(args.prompt_list, args.totp, args.password))
    /\ Ends("none")
    /\ UNCHANGED <<hop, known_hosts, transport, identity, agent_keys, server, store, args>>
    /\ UNCHANGED nirdVars

\* the credentials of the closure and the prompts of the server
KbdintArgs ==
    {[kind |-> "kbdint", prompt_list |-> pl, totp |-> t, password |-> p] :
        pl \in PromptLists, t \in {<<"1", "2", "3", "4", "5", "6">>}, p \in {<<"p">>, <<>>}}

InitKbdint ==
    /\ NirdIdle
    /\ hop = [kind |-> "none"]
    /\ known_hosts = [exists |-> FALSE, lines |-> <<>>]
    /\ args \in KbdintArgs
    /\ transport = [kind |-> "none"]
    /\ identity = [kind |-> "none"]
    /\ agent_keys = <<>>
    /\ server = "none"
    /\ store = "none"
    /\ result = NoResult
    /\ spc = "_kbdint_handler"
    /\ serr = "none"
    /\ calls = <<>>

KbdintNext == KbdintHandlerCall

SpecKbdint == InitKbdint /\ [][KbdintNext]_vars

\* ------------------------------------------------ claims on the dispatcher
AccessRecognised == nird_access_mode \in {NIRD_MODE_SSH, NIRD_MODE_SSH_2FA, NIRD_MODE_MOUNTED}
SshAccess == nird_access_mode \in {NIRD_MODE_SSH, NIRD_MODE_SSH_2FA}
StartedSet == {started[i] : i \in 1..Len(started)}
Delivered(u) == \A f \in Fields : Exists(remote, RemotePathOf(EntryOf(u), f))

\* C1: when a parallel run (recognised access mode) returns or raises, the
\* upload function was started for every unit and every unit has completed; the
\* aggregate error is raised if and only if at least one unit failed, and the
\* count it reports is the number of failed units.
C1_ParallelDispatch ==
    (nird_copy_mode = PARALLEL_COPYING /\ dpc \in {"returned", "raised"}) =>
        /\ (raised.kind = "Aggregate") <=> (Failed # {})
        /\ (raised.kind = "Aggregate") => raised.count = Cardinality(Failed)
        /\ AccessRecognised => (StartedSet = Units /\ \A u \in Units : Completed(u))

C1_Witness ==
    /\ nird_copy_mode = PARALLEL_COPYING
    /\ Len(tarFilesToTransferList) = 3
    /\ max_workers = 2
    /\ dpc = "raised"
    /\ raised.kind = "Aggregate"
    /\ raised.count = 1
    /\ pc[1] = "done"
    /\ err[2] = "EOFError"
    /\ pc[3] = "done"

\* C2: a serial run uploads the units in input order, one at a time, the next
\* only after the previous returned; once the upload of a unit fails no later
\* unit is started and the exception leaving the dispatcher is that unit's.
C2_SerialFailFast ==
    nird_copy_mode = SERIAL_COPYING =>
        /\ Len(started) <= Len(tarFilesToTransferList)
        /\ \A i \in 1..Len(started) : started[i] = tarFilesToTransferList[i]
        /\ \A i \in 1..(Len(started) - 1) : pc[started[i]] = "done"
        /\ Cardinality({u \in Units : pc[u] \in RunningPcs}) <= 1
        /\ \A i \in 1..Len(tarFilesToTransferList) :
              pc[tarFilesToTransferList[i]] = "failed" =>
                  /\ \A j \in (i + 1)..Len(tarFilesToTransferList) :
                        pc[tarFilesToTransferList[j]] = "idle"
                  /\ dpc = "raised"
                  /\ raised = Raise(err[tarFilesToTransferList[i]], tarFilesToTransferList[i])

C2_Witness ==
    /\ nird_copy_mode = SERIAL_COPYING
    /\ Len(tarFilesToTransferList) = 3
    /\ pc[1] = "done"
    /\ pc[2] = "failed"
    /\ pc[3] = "idle"
    /\ dpc = "raised"
    /\ raised.unit = 2

\* C3 (as stated): whenever the payload path exists when _upload_tar_via_scp is
\* called, the call raises the target-already-exists error and executes no put.
C3_AlwaysTargetExists ==
    \A u \in Units :
        (SshAccess /\ existedAtCall[u]) =>
            /\ pc[u] \in {"stat", "failed"}
            /\ pc[u] = "failed" => err[u] = "TargetExists"

\* C3 (amended): whenever the payload path exists when _upload_tar_via_scp is
\* called, the call raises and executes no put; it raises the not-absolute error
\* when one of the three remote paths is not absolute, and otherwise the
\* target-already-exists error or the error of the SFTP session or stat itself.
C3_RefuseOverwrite ==
    \A u \in Units :
        (SshAccess /\ existedAtCall[u]) =>
            /\ pc[u] \in {"stat", "failed"}
            /\ pc[u] = "failed" =>
                  IF \E f \in Fields : ~isabs(RemotePathOf(EntryOf(u), f))
                    THEN err[u] = "NotAbsolute"
                    ELSE err[u] \in {"TargetExists", "SftpError"}

C3_Witness ==
    \E u \in Units :
        /\ SshAccess
        /\ existedAtCall[u]
        /\ pc[u] = "failed"
        /\ err[u] = "TargetExists"
        /\ remote = [EmptyRemote EXCEPT ![PathA] = "q"]

\* C4: in a parallel run no put to a payload path is executed while that path
\* exists on the remote side.
C4_NoPutOverExisting ==
    [][\A u \in Units :
          (pc[u] = "put_tar" /\ pc'[u] # "put_tar") =>
              ~Exists(remote, EntryOf(u).tar_file_remote)]_vars

\* C5: the verification of a unit ends in a normal return only if payload and
\* checksum files are on the remote side and the remote md5 and sha512 digests
\* equal the first token of the local checksum files; when both tokens exist
\* and one differs from the remote digest, the call raises, and unless a session
\* or a hash command failed it raises the mismatch error of the first differing
\* digest.
C5_HashVerification ==
    [][\A u \in Units :
          (pc[u] = "verify" /\ pc'[u] # "verify") =>
              LET e == EntryOf(u)
                  md5_local == FirstToken(e.md5_file_local)
                  sha512_local == FirstToken(e.sha512_file_local)
                  md5_equal == md5_local = Md5Of(remote[e.tar_file_remote])
                  sha512_equal == sha512_local = Sha512Of(remote[e.tar_file_remote])
              IN /\ pc'[u] = "done" => (Delivered(u) /\ md5_equal /\ sha512_equal)
                 /\ (md5_local # <<>> /\ sha512_local # <<>> /\ ~(md5_equal /\ sha512_equal)) =>
                       /\ pc'[u] = "failed"
                       /\ err'[u] \notin {"EOFError", "KeyError", "Md5sumFailed", "Sha512sumFailed"} =>
                             err'[u] = (IF md5_equal THEN "Sha512Mismatch" ELSE "Md5Mismatch")]_vars

C5_Witness ==
    \E u \in Units :
        /\ pc[u] = "failed"
        /\ err[u] = "Sha512Mismatch"
        /\ Delivered(u)
        /\ remote[EntryOf(u).tar_file_remote] = LocalPayload

\* the lines of the known_hosts file written for the hop's host name
HostLines ==
    IF known_hosts.exists
      THEN {known_hosts.lines[i] : i \in {j \in 1..Len(known_hosts.lines) :
                                            known_hosts.lines[j].hostname = hop.hostname}}
      ELSE {}

\* C6: _validate_hostkey returns normally if and only if the known_hosts entries
\* of the hop's host contain a (key type, key bytes) pair equal to the offered
\* key; it raises the unknown-host-key error when the host has no entry (absent
\* or empty file included) and the mismatch error when it has entries and none
\* matches.
C6_ExactMatchRejectUnknown ==
    (calls = <<"_validate_hostkey">> /\ spc \in {"returned", "raised"}) =>
        /\ (spc = "returned") <=> (\E e \in HostLines : e.key = transport.remote_key)
        /\ HostLines = {} => serr = "HostKeyNotFound"
        /\ (HostLines # {} /\ ~\E e \in HostLines : e.key = transport.remote_key) =>
              serr = "HostKeyMismatch"

\* ---------------------------------------------------------- authentication
\* a call of _authenticate_transport is under way or over
AuthCalled == calls # <<>> /\ calls[1] = "_authenticate_transport" /\ HasGet(hop)
CallsOf(names) == {i \in 1..Len(calls) : calls[i] \in names}
AgentHoldsIdentityKey ==
    /\ identity.kind = "identity"
    /\ \E i \in 1..Len(agent_keys) : agent_keys[i] = identity.pub

\* C8: for a hop with an identity file, _authenticate_transport never calls
\* auth_interactive or auth_password (nor enters their strategies), whatever the
\* agent holds and the server answers; every call executes exactly one strategy
\* and sends requests of that strategy only.
C8_StrategyExclusive ==
    AuthCalled =>
        /\ hop.identityfile # <<>> =>
              CallsOf({"auth_interactive", "auth_password", "_get_login_credentials",
                       "keyboard-interactive", "password"}) = {}
        /\ Cardinality(CallsOf(Strategies)) = 1
        /\ \E kind \in {<<"publickey", "auth_publickey">>,
                        <<"keyboard-interactive", "auth_interactive">>,
                        <<"password", "auth_password">>} :
              /\ CallsOf({kind[1]}) # {}
              /\ CallsOf(AuthRequests \ {kind[2]}) = {}

\* the always-2FA host with an identity file is authenticated by public key
C8_Witness ==
    /\ AuthCalled
    /\ hop.hostname = NIRD_LOGIN
    /\ hop.identityfile # <<>>
    /\ spc = "returned"
    /\ CallsOf({"auth_publickey"}) # {}

\* C9: when the agent holds the key of the identity file and the server accepts
\* it, the transport is authenticated without the private key being loaded from
\* disk and without a passphrase being requested from the credential store.
C9_AgentFirstNoDiskKey ==
    (AuthCalled /\ AgentHoldsIdentityKey /\ server = "accept" /\ transport.authenticated) =>
        CallsOf({"_load_private_key", "_get_password"}) = {}

\* C10: one call of _authenticate_transport sends at most one authentication
\* request to the server, whatever the hop, the agent and the server's answers.
C10_AtMostOneRequest == Cardinality(CallsOf(AuthRequests)) <= 1

\* the agent holds two keys, the server rejects the matching one: one request
C10_Witness ==
    /\ AuthCalled
    /\ Len(agent_keys) = 2
    /\ server = "reject"
    /\ spc = "raised"
    /\ Cardinality(CallsOf({"auth_publickey"})) = 1

\* ------------------------------------------------------ _upload_csv_to_saga
SagaCalled == calls # <<>> /\ calls[1] = "_upload_csv_to_saga"
\* what follows the host-key validation in the session
AfterHostKey ==
    AuthRequests \cup {"_authenticate_transport", "_ensure_remote_present_file_via_sftp",
                       "_upload_tar_via_scp"}
\* the key the transport offers passes _validate_hostkey for the session's hop
HostKeyPasses ==
    /\ transport.kind = "transport"
    /\ validate_hostkey(hop, known_hosts, transport.remote_key) = "none"

is_authenticated(t) == t.kind = "transport" /\ t.active /\ t.authenticated
\* the public-key strategy has passed its agent step
AgentAsked == AuthCalled /\ CallsOf({"_auth_via_agent"}) # {}

\* C11: when no agent key has the fingerprint of the identity file,
\* _auth_via_agent sends no request and the caller goes on to authenticate with
\* the disk key (the key loaded from the identity file is offered to the
\* server); when a matching agent key is rejected by the server the call fails
\* with the rejection error and no other key, of the agent or of the disk, is
\* offered.
C11_FallThroughOrRaise ==
    (AgentAsked /\ spc \in {"returned", "raised"} /\ identity.pub = "A") =>
        /\ ~AgentHoldsIdentityKey =>
              /\ CallsOf({"_auth_via_private_key"}) # {}
              /\ Cardinality(CallsOf({"auth_publickey"})) = 1
              /\ serr # "NameError"
        /\ (AgentHoldsIdentityKey /\ server = "reject") =>
              /\ serr = "AuthenticationException"
              /\ Cardinality(CallsOf({"auth_publickey"})) = 1
              /\ CallsOf({"_auth_via_private_key"}) = {}

\* C12: _authenticate_transport returns normally only if the transport is
\* authenticated, whichever strategy ran; otherwise the call has raised.
C12_AuthenticatePostcondition ==
    AuthCalled =>
        /\ spc = "returned" => (is_authenticated(transport) /\ serr = "none")
        /\ (spc # "returned" /\ spc # "raised") =>
              (serr = "none" /\ spc \in {"_validate_ssh_key_auth_inputs", "_get_password",
                                         "_load_private_key", "_auth_via_agent",
                                         "_auth_via_private_key", "_get_login_credentials",
                                         "auth_interactive", "is_authenticated"})
        /\ spc = "raised" => serr # "none"

\* the keyboard-interactive strategy ended in a normal return
C12_Witness ==
    /\ AuthCalled
    /\ spc = "returned"
    /\ CallsOf({"auth_interactive"}) # {}
    /\ is_authenticated(transport)

\* ------------------------------------------------------ ProxyJump chains
ResolveCalled == args.kind = "resolve" /\ spc \in {"returned", "raised"}
LookupOf(alias) == config_lookup(args.ssh_config, alias)
MaxDepth == Cardinality(Aliases) + 1
Cut == "..."

\* the hosts passed on the way to an alias, first hop first: the path to each
\* host its ProxyJump names, in the order named, then the alias itself
RECURSIVE JumpPath(_, _, _)
RECURSIVE JumpPathThrough(_, _, _)
JumpPath(cfg, alias, depth) ==
    IF depth = 0 THEN <<Cut>>
    ELSE JumpPathThrough(cfg, config_lookup(cfg, alias).proxyjump, depth - 1) \o <<alias>>
JumpPathThrough(cfg, jumps, depth) ==
    IF jumps = <<>> THEN <<>>
    ELSE JumpPath(cfg, Head(jumps), depth) \o JumpPathThrough(cfg, Tail(jumps), depth)

NoInlineJump(cfg) ==
    \A a \in DOMAIN cfg : \A i \in 1..Len(cfg[a].proxyjump) : ~is_inline_jump(cfg[a].proxyjump[i])
ExpectedPath == JumpPath(args.ssh_config, args.start_alias, MaxDepth)
\* no loop, and no host named twice on the way
ValidChain ==
    /\ NoInlineJump(args.ssh_config)
    /\ \A i \in 1..Len(ExpectedPath) : ExpectedPath[i] # Cut
    /\ \A i, j \in 1..Len(ExpectedPath) : ExpectedPath[i] = ExpectedPath[j] => i = j

\* C13: for a valid configuration whose target is reached through k jump hosts,
\* nested ProxyJump directives included, the chain returned has exactly k+1
\* hops, first hop first, each jump host once and the target last
C13_ChainOfAllJumpHosts ==
    (ResolveCalled /\ ValidChain) =>
        /\ spc = "returned"
        /\ result.kind = "chain"
        /\ result.hops = [i \in 1..Len(ExpectedPath) |-> LookupOf(ExpectedPath[i])]

\* C14: a ProxyJump that leads back to an alias already expanded, a host naming
\* itself included, ends in the loop error and no chain is returned
C14_LoopDetected ==
    (ResolveCalled /\ NoInlineJump(args.ssh_config) /\ ~ValidChain) =>
        /\ spc = "raised"
        /\ serr = LoopError
        /\ result = NoResult
C14_Witness ==
    /\ ResolveCalled
    /\ LookupOf("t").proxyjump = <<"t">>
    /\ serr = LoopError

OccurrencesOf(h, hops) == Cardinality({i \in 1..Len(hops) : hops[i] = h})
\* C15 (as stated): a returned chain is non-empty, holds no hop twice, and ends
\* with the lookup of the requested target, which appears exactly once
C15_NoHopTwice ==
    (ResolveCalled /\ spc = "returned") =>
        /\ Len(result.hops) > 0
        /\ \A i, j \in 1..Len(result.hops) : result.hops[i] = result.hops[j] => i = j
        /\ result.hops[Len(result.hops)] = LookupOf(args.start_alias)
        /\ OccurrencesOf(LookupOf(args.start_alias), result.hops) = 1
\* C15 (amended): a returned chain is non-empty and ends with the lookup of the
\* requested target, which appears exactly once; two of its hops are equal only
\* where two different aliases have the same options
C15_NoAliasTwice ==
    (ResolveCalled /\ spc = "returned") =>
        /\ Len(result.hops) > 0
        /\ result.hops[Len(result.hops)] = LookupOf(args.start_alias)
        /\ OccurrencesOf(LookupOf(args.start_alias), result.hops) = 1
        /\ \A i, j \in 1..Len(result.hops) :
              (i # j /\ result.hops[i] = result.hops[j]) =>
                  \E a, b \in Aliases :
                      a # b /\ LookupOf(a) = result.hops[i] /\ LookupOf(b) = result.hops[i]
C15_Witness ==
    /\ ResolveCalled
    /\ spc = "returned"
    /\ Len(result.hops) = 3
    /\ result.hops[1] = result.hops[2]

\* ------------------------------------------------------------ config policy
ParseCalled == args.kind = "parse" /\ spc \in {"returned", "raised"}
TargetLookup == config_lookup(args.ssh_config, args.nird_upload_host)
\* the violations of the policy the target entry may show
PolicyViolated(l) ==
    \/ policy_text(l.stricthostkeychecking) # "yes"
    \/ policy_text(l.verifyhostkeydns) # "yes"
    \/ l.hostname = ""
    \/ l.user = ""
    \/ Len(l.identityfile) > 1

\* C16: a target entry with StrictHostKeyChecking or VerifyHostKeyDNS other than
\* yes, an empty HostName or User, or more than one IdentityFile makes
\* _parse_ssh_config raise a policy error, before any ProxyJump is expanded and
\* before any connection is opened
C16_PolicyBeforeExpansion ==
    (ParseCalled /\ args.isfile /\ PolicyViolated(TargetLookup)) =>
        /\ spc = "raised"
        /\ serr \in PolicyErrors
        /\ result = NoResult
        /\ CallsOf({"_verify_ssh_config_policy_for_hop"}) # {}
        /\ CallsOf({"_resolve_proxyjump_chain", "_connect_next_proxy_jump"}) = {}
        /\ transport.kind = "none"
C16_Witness ==
    /\ ParseCalled
    /\ args.isfile
    /\ TargetLookup.proxyjump = <<"j1">>
    /\ Len(TargetLookup.identityfile) > 1
    /\ serr = "ValueError: IdentityFile"

\* C17: every hop of a chain _parse_ssh_config returns, jump hosts included,
\* meets the policy
C17_EveryHopMeetsPolicy ==
    (ParseCalled /\ spc = "returned") =>
        \A i \in 1..Len(result.hops) : verify_ssh_config_policy_for_hop(result.hops[i]) = "none"

\* --------------------------------------------------------------- hop chain
\* a call of _connect_next_proxy_jump returns a transport built on a channel
\* through the transport the caller held
TunnelledHopConnected ==
    /\ args.kind = "chain"
    /\ transport.kind = "transport"
    /\ Cardinality({i \in 1..Len(calls') : calls'[i] = "_connect_next_proxy_jump"})
          > Cardinality(ConnectCalls)
    /\ spc' = "returned"

\* C18: in every sequence of connector and authenticator calls, the transport
\* of hop N+1 is created only through a transport of hop N that is
\* authenticated
C18_NextHopThroughAuthenticated ==
    [][TunnelledHopConnected => is_authenticated(transport)]_vars

\* ------------------------------------------------------- end of the session
\* the run of _upload_csv_to_saga is over and it had built a transport
SagaEndedWithTransport ==
    /\ SagaCalled
    /\ spc \in {"returned", "raised"}
    /\ CallsOf({"_connect"}) # {}
    /\ transport.kind = "transport"

\* C20: once _upload_csv_to_saga has returned or raised at a step after the
\* connect, the transport it built has been closed
C20_TransportClosed ==
    SagaEndedWithTransport => CallsOf({"close"}) # {}

\* ------------------------------------------------------ transport lifecycle
ValidatedThenAuthenticated ==
    \E i, j \in 1..Len(calls) :
        i < j /\ calls[i] = "_validate_hostkey" /\ calls[j] = "_authenticate_transport"
\* the transport has passed the host-key validation and then the authentication
SessionPassed ==
    /\ HostKeyPasses
    /\ is_authenticated(transport)
    /\ ValidatedThenAuthenticated
PutPcs == {"put_tar", "put_md5", "put_sha512"}
Transferred(u) ==
    \A f \in Fields : remote'[RemotePathOf(EntryOf(u), f)] = LocalPayload
\* an existence check, a put or a hash verification of the unit is carried out
UnitOperation(u) == pc[u] \in {"stat"} \cup PutPcs \cup {"verify"} /\ pc'[u] # pc[u]

DispatcherOver == dpc \in {"returned", "raised"}
\* the parallel run concludes: it returns, or raises the aggregate error
ParallelRunConcludes ==
    /\ nird_copy_mode = PARALLEL_COPYING
    /\ ~DispatcherOver
    /\ dpc' = "returned" \/ (dpc' = "raised" /\ raised'.kind = "Aggregate")

\* C21: a parallel run returns or raises the aggregate error only from the wait
\* for all tasks, when every submitted task was started and has completed (none
\* queued, none running), and the step that inspects the failures starts no
\* task and ends none
C21_JoinAllBeforeConclusion ==
    [][ParallelRunConcludes =>
          /\ dpc = "wait"
          /\ \A u \in Units : pc[u] \in {"done", "failed"} /\ u \in StartedSet
          /\ pc' = pc
          /\ started' = started]_vars
C21_Witness ==
    /\ nird_copy_mode = PARALLEL_COPYING
    /\ Len(tarFilesToTransferList) = 3
    /\ dpc = "raised"
    /\ raised.kind = "Aggregate"
    /\ raised.count = 2
    /\ pc[3] = "done"

ModesRecognised ==
    AccessRecognised /\ nird_copy_mode \in {SERIAL_COPYING, PARALLEL_COPYING}
NoUploadInvoked == started = <<>> /\ \A u \in Units : pc[u] = "idle"
\* C22 (as stated): with an access mode or a copy mode that is not recognised
\* the dispatcher raises the unknown-mode error and no upload function was
\* invoked for any unit
C22_UnknownModeError ==
    (~ModesRecognised /\ dpc # "entry") =>
        /\ dpc = "raised"
        /\ raised.kind \in {"UnknownAccessMode", "UnknownCopyMode"}
        /\ NoUploadInvoked
\* C22 (amended): with a mode that is not recognised the dispatcher raises and
\* no upload function was invoked for any unit; the error is the unknown-mode
\* error when the list of units is not empty, and the zero-length error, raised
\* before the modes are looked at, when it is empty
C22_UnknownModeRejected ==
    (~ModesRecognised /\ dpc # "entry") =>
        /\ dpc = "raised"
        /\ NoUploadInvoked
        /\ raised.kind =
              IF Len(tarFilesToTransferList) = 0 THEN "EmptyList"
              ELSE IF ~AccessRecognised THEN "UnknownAccessMode"
              ELSE "UnknownCopyMode"
C22_Witness ==
    /\ Len(tarFilesToTransferList) = 2
    /\ AccessRecognised
    /\ nird_copy_mode = "other"
    /\ dpc = "raised"
    /\ raised.kind = "UnknownCopyMode"
    /\ NoUploadInvoked

\* ------------------------------------------------------- checksum sidecars
SidecarPaths == {RemotePathOf(EntryOf(u), f) : u \in Units, f \in {"md5", "sha512"}}
\* C23: no step of an upload writes to a remote MD5 or SHA-512 sidecar path
\* that exists already
C23_NoPutOverExistingSidecar ==
    [][\A p \in SidecarPaths : Exists(remote, p) => remote'[p] = remote[p]]_vars

\* ------------------------------------------------------------ SFTP sessions
LogOf(names) == {i \in 1..Len(calls') : calls'[i] \in names}
\* C24: called on a live transport with a target that exists on the remote
\* side, _upload_tar_via_scp of the SAGA uploader raises RuntimeError, makes no
\* put and leaves the remote side as it was
C24_SagaRefusesOverwrite ==
    [][(args.kind = "saga_put" /\ spc = "_upload_tar_via_scp" /\ transport.kind = "transport"
        /\ transport.active /\ server.target = "file") =>
          /\ spc' = "raised"
          /\ serr' = "RuntimeError"
          /\ LogOf({"putfo"}) = {}
          /\ server' = server]_vars

SftpCallOver == args.kind \in {"ensure_dir", "saga_put", "nird_put"} /\ spc \in {"returned", "raised"}
\* C25: in _ensure_remote_dir_via_sftp mkdir is invoked if and only if the stat
\* reported not-found; a target that exists, as a directory or as a file, makes
\* the call raise without mkdir, and a stat that fails otherwise makes it raise
\* the stat-failed error (the error of the dropped connection, when the
\* connection dropped) without mkdir
C25_MkdirOnlyWhenAbsent ==
    [][(args.kind = "ensure_dir" /\ spc = "_ensure_remote_dir_via_sftp") =>
          /\ LogOf({"mkdir"}) # {} =>
                /\ server.target = "absent"
                /\ LogOf({"stat"}) # {}
                /\ serr' \in {"none", "SSHException: cannot create"}
          /\ (LogOf({"stat"}) # {} /\ serr' \notin StatErrors /\ server.target = "absent") =>
                LogOf({"mkdir"}) # {}
          /\ (LogOf({"stat"}) # {} /\ LogOf({"mkdir"}) = {}) =>
                /\ spc' = "raised"
                /\ server' = server
                /\ \/ serr' \in StatErrors
                   \/ server.target = "dir" /\ serr' = "SSHException: already exists"
                   \/ server.target = "file"
                      /\ serr' = "SSHException: exists but is not a directory"
          /\ server' # server => LogOf({"mkdir"}) # {} /\ serr' = "none"]_vars
C25_Witness ==
    /\ args.kind = "ensure_dir"
    /\ spc = "returned"
    /\ server.made
    /\ CallsOf({"mkdir"}) # {}

\* C26: when _ensure_remote_dir_via_sftp or either _upload_tar_via_scp has
\* returned or raised, every SFTP session the call opened has been closed
C26_NoSftpSessionLeft ==
    SftpCallOver =>
        /\ Cardinality(CallsOf({"sftp_open"})) = Cardinality(CallsOf({"sftp_close"}))
        /\ \A i \in CallsOf({"sftp_open"}) : \E j \in CallsOf({"sftp_close"}) : i < j
C26_Witness ==
    /\ args.kind = "saga_put"
    /\ spc = "raised"
    /\ CallsOf({"putfo"}) # {}
    /\ server.written = "partial"
    /\ CallsOf({"sftp_close"}) # {}

\* ---------------------------------------------------------------- C27, C28
HashCallOver == args.kind = "verify" /\ spc \in {"returned", "raised"}
\* the main thread is past the two joins
PastJoin ==
    /\ args.kind = "verify"
    /\ spc \in {"unpack", "status", "compare"} \/ CallsOf({"unpack"}) # {}
\* what the drain thread of key k stores, whenever it runs
Drained(k) == IF k \in args.raises THEN Missing ELSE args[k]

\* C27: in every interleaving of the two drain threads, the results are
\* unpacked, the exit statuses checked and the digests compared only after both
\* threads have finished and both channels are closed, and what the
\* verification ends with is a function of what the two commands produced and
\* the local checksum files alone, whichever thread finished first
C27_JoinedBeforeComparison ==
    /\ PastJoin =>
          /\ \A k \in HashKeys : result.thread[k] = "finished" /\ server[k] = "closed"
          /\ \A k \in HashKeys : CallsOf({k}) # {}
          /\ \A i \in CallsOf(HashKeys), j \in CallsOf({"unpack", "status", "compare"}) : i < j
    /\ (HashCallOver /\ PastJoin) =>
          serr = VerifyResult(Drained("md5"), Drained("sha512"),
                              args.md5_file_local, args.sha512_file_local)

\* the sha512 thread, started last, finished first, and the verification succeeded
C27_Witness ==
    /\ HashCallOver
    /\ calls = <<"sha512", "md5", "unpack", "status", "compare">>
    /\ serr = "none"

\* C28: when md5sum or sha512sum exits with a non-zero status, the verification
\* ends with the remote-hash-command-failed error of that command, and no
\* digest is compared
C28_HashCommandFailure ==
    (HashCallOver /\ PastJoin /\ \E k \in HashKeys : args[k].status # 0) =>
        /\ serr \in {"Md5sumFailed", "Sha512sumFailed"}
        /\ CallsOf({"compare"}) = {}

\* --------------------------------------------------------------------- C29
KbdintOver == args.kind = "kbdint" /\ spc = "returned"
\* the lower-cased prompt holds one of the TOTP words
HasTotpWord(text) ==
    \E w \in {OneTimePasswordLiteral, TotpLiteral, TokenLiteral, VerificationLiteral, CodeLiteral} :
        IsSubstring(lower(w), lower(text))
HasPasswordWord(text) == IsSubstring(PasswordLiteral, lower(text))

\* C29: the handler returns one response per prompt, in the order of the
\* prompts: the TOTP for a prompt whose lower-cased text holds "one-time
\* password", "totp", "token", "verification" or "code" (also when it holds
\* "password" as well), the password for any other prompt that holds
\* "password", and the empty string for the rest
C29_KbdintResponses ==
    KbdintOver =>
        /\ Len(result.responses) = Len(args.prompt_list)
        /\ \A i \in 1..Len(args.prompt_list) :
              LET text == args.prompt_list[i][1]
              IN result.responses[i] =
                    IF HasTotpWord(text) THEN args.totp
                    ELSE IF HasPasswordWord(text) THEN args.password
                    ELSE <<>>

\* "One-time Password" then "Password": the first prompt holds a TOTP word and
\* "password" and gets the TOTP, the second gets the password
C29_Witness ==
    /\ KbdintOver
    /\ Len(args.prompt_list) = 2
    /\ args.prompt_list[1][1] = WordOneTime \o WordPassword
    /\ args.prompt_list[2][1] = WordPassword
    /\ args.password = <<"p">>
    /\ result.responses = <<args.totp, args.password>>

\* --------------------------------------------------------------------- C30
\* _validate_ssh_key_auth_inputs has run on a hop whose identity file is not a
\* readable, non-empty regular file
InvalidIdentityFileValidated ==
    /\ AuthCalled
    /\ identity.kind = "identity"
    /\ identity.file # "regular"
    /\ CallsOf({"_validate_ssh_key_auth_inputs"}) # {}
NothingAttempted ==
    CallsOf({"_get_password", "_load_private_key", "_auth_via_agent", "_auth_via_private_key",
             "auth_publickey"}) = {}

\* C30: for a hop whose identity file is missing, a symlink, not a regular
\* file, empty or unreadable, public-key authentication ends with ValueError,
\* and before the credential store is asked, the key is loaded, the agent is
\* queried or a request is sent to the server
C30_InvalidIdentityFileFirst ==
    InvalidIdentityFileValidated =>
        /\ spc = "raised"
        /\ serr = "ValueError"
        /\ NothingAttempted

\* --------------------------------------------------------------------- C31
\* the known_hosts name of a host on a port other than 22, "[host]:port"
BracketedName(hostname, port) == IF hostname = "h" /\ port = "2222" THEN "[h]:2222" ELSE "none"
\* the only line of the file records the offered key under the hop's
\* "[host]:port" name
RecordedUnderPort ==
    /\ known_hosts.exists
    /\ Len(known_hosts.lines) = 1
    /\ hop.port # "22"
    /\ known_hosts.lines[1] = HostKeyEntry(BracketedName(hop.hostname, hop.port),
                                           transport.remote_key)

\* C31: for a hop on a port other than 22 whose offered key is recorded in
\* known_hosts under "[host]:port", _validate_hostkey finds the entry and
\* returns normally
C31_NonDefaultPortLookup ==
    (calls = <<"_validate_hostkey">> /\ spc \in {"returned", "raised"} /\ RecordedUnderPort) =>
        spc = "returned"

\* --------------------------------------------------------------------- C32
\* C32: a target entry with an IdentityFile and IdentitiesOnly other than yes is
\* rejected by the policy check, and a target entry with no IdentityFile is
\* not rejected for its IdentitiesOnly option
C32_IdentitiesOnlyConditional ==
    (ParseCalled /\ args.isfile) =>
        /\ (TargetLookup.identityfile # <<>> /\ policy_text(TargetLookup.identitiesonly) # "yes") =>
              (spc = "raised" /\ serr \in PolicyErrors)
        /\ TargetLookup.identityfile = <<>> => serr # "ValueError: IdentitiesOnly"

\* --------------------------------------------------------------------- C33
JumpOver == args.kind = "jump" /\ spc \in {"returned", "raised"}
NameText(s) == s # <<>> /\ \A i \in 1..Len(s) : s[i] \in {"j", "2"}
PortText(s) == s # <<>> /\ \A i \in 1..Len(s) : s[i] = "2"
\* user@host, host:port and user@host:port
UserHostPort(t) ==
    \E a, b \in 0..Len(t) :
        /\ a <= b
        /\ a > 0 \/ b < Len(t)
        /\ a = 0 \/ (NameText(SubSeq(t, 1, a - 1)) /\ t[a] = "@")
        /\ NameText(SubSeq(t, a + 1, b))
        /\ b = Len(t) \/ (t[b + 1] = ":" /\ PortText(SubSeq(t, b + 2, Len(t))))
\* an ssh:// URI of a host, or of user@host, host:port, user@host:port
SshUri(t) ==
    /\ StartsWith(t, SshScheme)
    /\ LET rest == SubSeq(t, Len(SshScheme) + 1, Len(t))
       IN NameText(rest) \/ UserHostPort(rest)
\* a token with no "@", no ":" and no scheme
BareAlias(t) ==
    /\ \A i \in 1..Len(t) : t[i] \notin {"@", ":"}
    /\ ~StartsWith(t, SshScheme)

\* C33: a ProxyJump value with a token of the form user@host, host:port,
\* user@host:port or an ssh:// URI raises the ValueError of the policy and puts
\* nothing on the worklist; the tokens that are put there to be looked up as
\* hops are bare aliases
C33_InlineJumpRejected ==
    JumpOver =>
        LET tokens == hop_aliases_of(args.proxyjump)
        IN /\ (\E i \in 1..Len(tokens) : UserHostPort(tokens[i]) \/ SshUri(tokens[i])) =>
                 (serr = InlineError /\ result = NoResult)
           /\ spc = "returned" =>
                 \A i \in 1..Len(result.aliases) : BareAlias(result.aliases[i])

\* --------------------------------------------------------------------- C34
\* the call raised for a remote path that is not absolute or for a target that
\* exists already
FatalConditionRaised ==
    /\ SftpCallOver
    /\ spc = "raised"
    /\ serr \in {"RuntimeError: not in absolute path", "RuntimeError: Remote path is not absolute",
                 "SSHException: already exists", "RuntimeError: Remote file already exists"}

\* C34: when a call raises for one of the fatal conditions the core knows (here
\* a remote path that is not absolute, a target that exists already), a
\* critical log record has been written before the exception leaves the call
C34_LoggedBeforeRaised ==
    FatalConditionRaised => CallsOf({"critical"}) # {}

\* --------------------------------------------------------------------- C35
PreflightDone == SagaCalled /\ CallsOf({"_preflight_check"}) # {}
\* the final component of the location is a name that ends in ".csv", in any case
CsvFilename(location) ==
    LET base == basename(location)
    IN /\ Len(base) >= 4
       /\ lower(SubSeq(base, Len(base) - 3, Len(base))) = <<".", "c", "s", "v">>
PreflightErrors ==
    {"RuntimeError: file length zero", "RuntimeError: username required",
     "RuntimeError: * in username", "RuntimeError: username not alphanumeric",
     "RuntimeError: token required", "RuntimeError: token not six digits",
     "RuntimeError: * in totp", "RuntimeError: empty password", "RuntimeError: * in password",
     "RuntimeError: location required", "RuntimeError: location not absolute",
     "RuntimeError: no csv filename"}

\* C35: _preflight_check raises RuntimeError for every saga_location whose final
\* component is empty or does not end in ".csv" (in any case); the run goes past
\* the check to the connection only with a location whose filename ends in ".csv"
C35_NonCsvRejected ==
    (PreflightDone /\ ~CsvFilename(args.saga_location)) =>
        (spc = "raised" /\ serr \in PreflightErrors)

\* --------------------------------------------------------------------- C36
\* the reverse lookups made so far for the address
LookupsOf(ip) == {i \in 1..Len(calls) : calls[i] = ip}

\* C36: whatever the threads calling _resolve_hostname and their interleaving,
\* an address is looked up with gethostbyaddr at most once, and all the calls
\* for it return one value
C36_ResolvedOncePerAddress ==
    args.kind = "resolve" =>
        \A ip \in IpAddresses :
            /\ Cardinality(LookupsOf(ip)) <= 1
            /\ \A r1, r2 \in result.returned : (r1[1] = ip /\ r2[1] = ip) => r1 = r2

\* --------------------------------------------------------------------- C37
\* C37: _authenticate_transport executes the public-key strategy for a hop with
\* an identity file and the keyboard-interactive strategy for every other hop;
\* the password branch (the password of the hostname, auth_password) is entered
\* for no hop
C37_TwoStrategiesOnly ==
    AuthCalled =>
        /\ hop.identityfile # <<>> => CallsOf(Strategies) = CallsOf({"publickey"})
        /\ hop.identityfile = <<>> => CallsOf(Strategies) = CallsOf({"keyboard-interactive"})
        /\ CallsOf({"password", "auth_password"}) = {}

\* a host other than the flagged one, with no identity file, answered the
\* keyboard-interactive exchange
C37_Witness ==
    /\ AuthCalled
    /\ hop.hostname # NIRD_LOGIN
    /\ hop.identityfile = <<>>
    /\ CallsOf({"keyboard-interactive"}) # {}
    /\ CallsOf({"auth_interactive"}) # {}
    /\ spc = "returned"

\* --------------------------------------------------------------------- C38
LoopOver == args.kind = "loop" /\ spc \in {"returned", "raised"}
\* no alias was given twice to the lookup of the loop, and the loop has begun
\* no more passes than there are aliases, one more when the last one raises
LoopBounded ==
    args.kind = "loop" =>
        /\ \A i, j \in 1..Len(result.lookups) : result.lookups[i] = result.lookups[j] => i = j
        /\ result.iterations <= Cardinality(Aliases) + 1
        /\ result.iterations <= Len(result.lookups) + 1
        /\ LoopOver =>
              LET r == resolve_proxyjump_chain(args.ssh_config, args.start_alias)
              IN serr = r.err /\ (r.err = "none" => result.resolved_hops = r.hops)

PreflightRejects == PreflightDone /\ preflight_check(args) # "none"
NetworkSteps ==
    {"_connect", "_validate_hostkey", "_authenticate_transport",
     "_ensure_remote_present_file_via_sftp", "_upload_tar_via_scp"}

\* C39: when _preflight_check rejects the inputs of _upload_csv_to_saga, the
\* call is raised with the error of the check, no transport was opened, and
\* no connection, host-key validation, authentication or upload step was run
C39_ValidationBeforeNetwork ==
    PreflightRejects =>
        /\ spc = "raised"
        /\ serr = preflight_check(args)
        /\ transport.kind = "none"
        /\ CallsOf(NetworkSteps) = {}
        /\ calls = <<"_upload_csv_to_saga", "_preflight_check">>

\* a token that is not six digits was rejected with nothing opened
C39_Witness ==
    /\ PreflightRejects
    /\ serr = "RuntimeError: token not six digits"
    /\ spc = "raised"
    /\ transport.kind = "none"

====
